---- MODULE Spec2Model ----
(***************************************************************************)
(* Model of lerobot/common/robot_devices/robots/manipulator.py:            *)
(* the safety clamp ensure_safe_goal_position and the ManipulatorRobot     *)
(* controller (connect / teleop_step / capture_observation / send_action / *)
(* disconnect, the SIGINT/SIGTERM handler, the atexit hook and __del__).   *)
(*                                                                         *)
(* Positions are integer-valued joint positions.  Python runs the signal   *)
(* handler in the control thread between two bytecodes, so the control     *)
(* thread is modelled as a call stack of frames: a delivered signal pushes *)
(* a handler frame on top of whatever is running, and an exception unwinds *)
(* the stack frame by frame, each frame catching what its try blocks catch.*)
(***************************************************************************)
EXTENDS Integers, Sequences, FiniteSets, TLC

\* ------------------------------------------------------------------ bounds
MaxArms    == 1   \* arm names are 1..MaxArms (a follower and a leader may share a name)
MaxCameras == 1
MaxSensors == 1
SensingSensors == 2   \* tactile sensors of the controller whose flags are polled
NumMotors  == 1   \* motors per arm
MaxPos     == 1   \* positions read from hardware / requested lie in -MaxPos..MaxPos
MaxBound   == 1   \* max_relative_target entries lie in 0..MaxBound
MaxNesting == 1   \* signal handler frames nested on the stack at one time
MaxCount   == 2   \* the per-device count of disconnect() calls saturates here
MaxDefects == 1   \* regular fields missing or null in one tactile payload
MaxRecords == 2   \* distinct records a calibration routine may produce
MotionArms == 2   \* leader/follower pairs of the controller whose motion commands are explored

Pos     == (0 - MaxPos)..MaxPos
PosVec  == [1..NumMotors -> Pos]
Signals == {"SIGINT", "SIGTERM"}

\* ------------------------------------------------------- numeric helpers
Abs(x) == IF x < 0 THEN 0 - x ELSE x
Min(a, b) == IF a < b THEN a ELSE b
Max(a, b) == IF a > b THEN a ELSE b

\* numpy astype(np.float32) on an integer value: exact up to 2^24, beyond
\* that rounded to a 24 bit significand, ties to even.
Float32Step(x) ==
  LET a == Abs(x)
      e == CHOOSE k \in 0..8 : a < 16777216 * (2 ^ (k + 1)) /\ (k = 0 \/ a >= 16777216 * (2 ^ k))
  IN 2 ^ (e + 1)

Float32(x) ==
  IF Abs(x) <= 16777216 THEN x
  ELSE LET s    == Float32Step(x)
           a    == Abs(x)
           lo   == (a \div s) * s
           r    == a - lo
           up   == IF 2 * r > s THEN TRUE
                   ELSE IF 2 * r < s THEN FALSE
                   ELSE ((lo \div s) % 2) = 1
           m    == IF up THEN lo + s ELSE lo
       IN IF x < 0 THEN 0 - m ELSE m

AsFloat32(v) == [i \in DOMAIN v |-> Float32(v[i])]

\* ----------------------------------------------------------- safety clamp
\* max_relative_target is None ("none"), a float ("scalar") or a list of
\* floats ("list"); torch broadcasts the scalar over the axes.
NoTarget == [kind |-> "none", val |-> <<>>]
ScalarTargets == {[kind |-> "scalar", val |-> <<b>>] : b \in 0..MaxBound}
ListTargets   == {[kind |-> "list", val |-> l] : l \in [1..NumMotors -> 0..MaxBound]}
Targets == ScalarTargets \cup ListTargets

BoundAt(mrt, i) == IF mrt.kind = "scalar" THEN mrt.val[1] ELSE mrt.val[i]

\* the clamp without torch.maximum: negative deltas are not truncated
safe_diff_NoLowerBound(goal_pos, present_pos, mrt) ==
  [i \in DOMAIN goal_pos |-> Min(goal_pos[i] - present_pos[i], BoundAt(mrt, i))]

\* the clamp that applies the bound of the first axis to every axis
safe_diff_FirstAxisBound(goal_pos, present_pos, mrt) ==
  [i \in DOMAIN goal_pos |->
     Max(Min(goal_pos[i] - present_pos[i], BoundAt(mrt, 1)), 0 - BoundAt(mrt, 1))]

\* diff, torch.minimum, torch.maximum of lines 48-51
safe_diff(goal_pos, present_pos, mrt) ==
  [i \in DOMAIN goal_pos |->
     Max(Min(goal_pos[i] - present_pos[i], BoundAt(mrt, i)), 0 - BoundAt(mrt, i))]

\* the clamp that returns the truncated delta without re-adding present_pos
ensure_safe_goal_position_DropsPresent(goal_pos, present_pos, mrt) ==
  safe_diff(goal_pos, present_pos, mrt)

ensure_safe_goal_position(goal_pos, present_pos, mrt) ==
  [i \in DOMAIN goal_pos |-> present_pos[i] + safe_diff(goal_pos, present_pos, mrt)[i]]

\* torch.allclose(goal_pos, safe_goal_pos) is false: the warning is logged
\* (on integer values below 10^5 allclose is equality)
ClampWarns(goal_pos, present_pos, mrt) ==
  ensure_safe_goal_position(goal_pos, present_pos, mrt) # goal_pos

\* ------------------------------------------------------------- sequences
RECURSIVE Flatten(_)
Flatten(ss) == IF ss = <<>> THEN <<>> ELSE Head(ss) \o Flatten(Tail(ss))

RECURSIVE SortedSeq(_)
SortedSeq(S) ==
  IF S = {} THEN <<>>
  ELSE LET m == CHOOSE x \in S : \A y \in S : x <= y
       IN <<m>> \o SortedSeq(S \ {m})

Range(s) == {s[i] : i \in DOMAIN s}

\* ------------------------------------------------------------------ state
VARIABLES
  follower_arms,       \* self.follower_arms: arm names in registry order
  leader_arms,         \* self.leader_arms
  cameras,             \* self.cameras
  tactile_sensors,     \* self.tactile_sensors: sensor i has config.type tactile_sensors[i]
  robot_type,          \* self.robot_type
  gripper_open_degree, \* self.config.gripper_open_degree (<<>> for None, or <<degree>>)
  max_relative_target, \* self.config.max_relative_target
  is_connected,        \* self.is_connected
  handlers,            \* process-wide disposition of SIGINT / SIGTERM
  stack,               \* call stack of the control thread (top = last)
  exc,                 \* exception propagating in the control thread
  phase,               \* "running", "atexit" (exit hook), "finalize" (__del__), "ended"
  discCalls,           \* per device: disconnect() calls since the last connect()
  calib_files,         \* per arm: the content of {calibration_dir}/{arm_id}.json
  calibrated,          \* per arm: the record last applied by set_calibration
  lastOp,              \* last finished call of the public API and the device calls it made
  clamp,               \* one evaluation of ensure_safe_goal_position
  tactile,             \* one evaluation of _get_tactile_observation, stage by stage
  logs,                \* self.logs: the critical-error entries (timings are left out)
  critical,            \* tactile sensors whose critical-error flag is latched
  schema               \* the first value the features property returned in this session

vars == <<follower_arms, leader_arms, cameras, tactile_sensors, robot_type,
          gripper_open_degree, max_relative_target, is_connected, handlers,
          stack, exc, phase, discCalls,
          calib_files, calibrated, lastOp, clamp, tactile, logs, critical, schema>>

config == <<follower_arms, leader_arms, cameras, tactile_sensors, robot_type,
            gripper_open_degree, max_relative_target>>

SensorTypes == {"tac3d", "gelsight", "digit", "unknown"}
RobotTypes  == {"koch", "aloha", "so100", "so101"}

Dev(cls, name) == [cls |-> cls, name |-> name]
Seq2Devs(cls, names) == [i \in 1..Len(names) |-> Dev(cls, names[i])]

Followers == Seq2Devs("follower", follower_arms)
Leaders   == Seq2Devs("leader", leader_arms)
Cameras   == Seq2Devs("camera", cameras)
Sensors   == [i \in 1..Len(tactile_sensors) |-> Dev("tactile", i)]

Arms == Range(Followers) \cup Range(Leaders)

\* a calibration record: who produced it, and which of its possible results
NoCalibration == [by |-> "none", id |-> 0]
StoredCalibration == [by |-> "file", id |-> 1]
Calibrated == {a \in Arms : calibrated[a] # NoCalibration}

Devices == Range(Followers) \cup Range(Leaders) \cup Range(Cameras) \cup Range(Sensors)

AllDevices ==
  {Dev(c, n) : c \in {"follower", "leader"}, n \in 1..Max(MaxArms, MotionArms)}
    \cup {Dev("camera", n) : n \in 1..MaxCameras}
    \cup {Dev("tactile", n) : n \in 1..Max(MaxSensors, SensingSensors)}

sensor_type(d) == tactile_sensors[d.name]

\* exceptions derived from Exception, caught by `except Exception`;
\* KeyboardInterrupt and SystemExit derive from BaseException only
ExceptionClass == {"NotConnected", "AlreadyConnected", "ValueError", "DeviceError",
                   "KeyError", "RuntimeError"}

NoRet == [state |-> <<>>, action |-> <<>>, obs |-> <<>>, features |-> <<>>]
NoSchema == [read |-> FALSE, conn |-> FALSE, map |-> <<>>]
NoOp == [op |-> "none", arg |-> <<>>, conn |-> FALSE, raised |-> "none", absorbed |-> "none",
         calls |-> <<>>, ret |-> NoRet]

Call(fn, dev, reg, motors, val) ==
  [fn |-> fn, dev |-> dev, reg |-> reg, motors |-> motors, val |-> val]

IdleClamp == [stage |-> "idle", goal |-> <<>>, present |-> <<>>, mrt |-> NoTarget,
              result |-> <<>>, first |-> <<>>, warned |-> FALSE]

\* stage: position in the routine; pending: futures not yet yielded by
\* as_completed; read: what each finished read() did; raw: tactile_data_raw;
\* reordered: a future finished before one submitted earlier; err: the
\* exception raised; obs: the dictionary returned; hung: futures whose
\* read() never returns; call: the number of this call; prev: what each
\* read() of the previous call did
IdleTactile == [stage |-> "idle", pending |-> {}, read |-> <<>>, raw |-> <<>>,
                reordered |-> FALSE, err |-> "none", obs |-> <<>>,
                hung |-> {}, call |-> 1, prev |-> <<>>]

\* the device registry built by __init__ from the configuration
InitDevices ==
  /\ follower_arms \in {SortedSeq(S) : S \in SUBSET (1..MaxArms)}
  /\ leader_arms \in {SortedSeq(S) : S \in SUBSET (1..MaxArms)}
  /\ cameras \in {SortedSeq(1..k) : k \in 0..MaxCameras}
  /\ tactile_sensors \in UNION {[1..k -> SensorTypes] : k \in 0..MaxSensors}

\* state after ManipulatorRobot.__init__: not connected, both signal
\* handlers installed, exit hook registered
InitRobot ==
  /\ is_connected = FALSE
  /\ handlers = [s \in Signals |-> "robot"]
  /\ stack = <<>>
  /\ exc = "none"
  /\ phase = "running"
  /\ discCalls = [d \in AllDevices |-> 0]
  /\ calib_files \in [Arms -> {NoCalibration, StoredCalibration}]
  /\ calibrated = [a \in Arms |-> NoCalibration]
  /\ lastOp = NoOp
  /\ logs = {}
  /\ critical = {}
  /\ schema = NoSchema

\* configurations for the lifecycle: every device registry, every sensor
\* type, calibration files present or missing, no relative-target bound
Init ==
  /\ InitDevices
  /\ Range(tactile_sensors) \subseteq {"gelsight", "digit"}
  /\ robot_type = "so101"
  /\ gripper_open_degree = <<>>
  /\ max_relative_target = NoTarget
  /\ InitRobot
  /\ calib_files = [a \in Arms |-> StoredCalibration]
  /\ clamp = IdleClamp
  /\ tactile = IdleTactile

\* configurations for the control operations: every arm and camera
\* registry, every robot type and every relative-target bound
InitControl ==
  /\ InitDevices
  /\ robot_type \in RobotTypes
  /\ gripper_open_degree \in {<<>>, <<1>>}
  /\ robot_type # "koch" => gripper_open_degree = <<>>
  /\ max_relative_target \in {NoTarget} \cup Targets
  /\ InitRobot
  /\ calib_files = [a \in Arms |-> StoredCalibration]
  /\ clamp = IdleClamp
  /\ tactile = IdleTactile

\* --------------------------------------------------------- call stack
\* op: the routine; pc: its position; i: loop index; sig: the signal of a handler
\* frame; log: device calls made so far; conn: the value of is_connected the
\* routine tested; err: the exception its except clause absorbed
Frame(op, pc, i, sig) ==
  [op |-> op, pc |-> pc, i |-> i, sig |-> sig, log |-> <<>>, conn |-> FALSE, err |-> "none"]

Top == stack[Len(stack)]
Pop == SubSeq(stack, 1, Len(stack) - 1)
Push(f) == Append(stack, f)
SetTop(f) == [stack EXCEPT ![Len(stack)] = f]

\* the application may call the API: nothing is running, nothing propagates
Idle == stack = <<>> /\ exc = "none" /\ phase = "running"
\* the frame on top of the stack takes its next step
Running(op, pc) == stack # <<>> /\ exc = "none" /\ Top.op = op /\ Top.pc = pc

\* op: the call; arg: its argument; conn: is_connected when it was made;
\* raised: the exception it raised; absorbed: an exception it caught;
\* calls: its device calls in order; ret: its result
ApiResult(op, conn, raised, calls, ret) ==
  [op |-> op, arg |-> <<>>, conn |-> conn, raised |-> raised, absorbed |-> "none",
   calls |-> calls, ret |-> ret]

\* arm.motor_names: NumMotors joints, the last one being the gripper
JointNames == <<"shoulder_pan", "shoulder_lift", "elbow_flex", "wrist_flex", "wrist_roll">>
motor_names == [i \in 1..NumMotors |-> IF i = NumMotors THEN "gripper" ELSE JointNames[i]]
all_motors_except_gripper == {motor_names[i] : i \in 1..NumMotors} \ {"gripper"}

\* ------------------------------------------------------------- presets
Step(fn, dev, reg, motors) == Call(fn, dev, reg, motors, <<>>)

set_operating_mode_(arm) ==
  <<Step("read", arm, "Torque_Enable", "all")>>
    \o (IF all_motors_except_gripper # {}
        THEN <<Step("write", arm, "Operating_Mode", "all_motors_except_gripper")>>
        ELSE <<>>)
    \o <<Step("write", arm, "Operating_Mode", "gripper")>>

set_koch_robot_preset ==
  Flatten([k \in 1..Len(Followers) |->
      set_operating_mode_(Followers[k])
        \o <<Step("write", Followers[k], "Position_P_Gain", "elbow_flex"),
             Step("write", Followers[k], "Position_I_Gain", "elbow_flex"),
             Step("write", Followers[k], "Position_D_Gain", "elbow_flex")>>])
    \o (IF gripper_open_degree # <<>>
        THEN Flatten([k \in 1..Len(Leaders) |->
               set_operating_mode_(Leaders[k])
                 \o <<Step("write", Leaders[k], "Torque_Enable", "gripper"),
                      Step("write", Leaders[k], "Goal_Position", "gripper")>>])
        ELSE <<>>)

set_shadow_(arm) ==
  (IF "shoulder_shadow" \in Range(motor_names)
   THEN <<Step("read", arm, "ID", "shoulder"),
          Step("write", arm, "Secondary_ID", "shoulder_shadow")>>
   ELSE <<>>)
    \o (IF "elbow_shadow" \in Range(motor_names)
        THEN <<Step("read", arm, "ID", "elbow"),
               Step("write", arm, "Secondary_ID", "elbow_shadow")>>
        ELSE <<>>)

set_aloha_robot_preset ==
  Flatten([k \in 1..Len(Followers) |-> set_shadow_(Followers[k])])
    \o Flatten([k \in 1..Len(Leaders) |-> set_shadow_(Leaders[k])])
    \o Flatten([k \in 1..Len(Followers) |->
         <<Step("write", Followers[k], "Velocity_Limit", "all")>>
           \o (IF all_motors_except_gripper # {}
               THEN <<Step("write", Followers[k], "Operating_Mode", "all_motors_except_gripper")>>
               ELSE <<>>)
           \o <<Step("write", Followers[k], "Operating_Mode", "gripper")>>])

set_so100_robot_preset ==
  Flatten([k \in 1..Len(Followers) |->
      <<Step("write", Followers[k], "Mode", "all"),
        Step("write", Followers[k], "P_Coefficient", "all"),
        Step("write", Followers[k], "I_Coefficient", "all"),
        Step("write", Followers[k], "D_Coefficient", "all"),
        Step("write", Followers[k], "Lock", "all"),
        Step("write", Followers[k], "Maximum_Acceleration", "all"),
        Step("write", Followers[k], "Acceleration", "all")>>])

\* the routine family of lines 432-442
calibration_routine ==
  IF robot_type \in {"koch", "koch_bimanual", "aloha"} THEN "run_arm_calibration"
  ELSE "run_arm_manual_calibration"

\* load_or_run_calibration_ that runs the routine whether or not a file exists
load_or_run_calibration_AlwaysRuns(arm, id) ==
  [file |-> calib_files[arm], routine |-> calibration_routine, wrote |-> TRUE,
   calibration |-> [by |-> calibration_routine, id |-> id]]

\* load_or_run_calibration_ that does not save what the routine returned
load_or_run_calibration_NotSaved(arm, id) ==
  IF calib_files[arm] # NoCalibration
  THEN [file |-> calib_files[arm], routine |-> "none", wrote |-> FALSE,
        calibration |-> calib_files[arm]]
  ELSE [file |-> calib_files[arm], routine |-> calibration_routine, wrote |-> FALSE,
        calibration |-> [by |-> calibration_routine, id |-> id]]

\* lines 421-449 for one arm; id: the result of the routine, if it runs.
\* file: the file's content on entry; routine: the routine that ran;
\* wrote: the file was written; calibration: the record returned
load_or_run_calibration_(arm, id) ==
  IF calib_files[arm] # NoCalibration
  THEN [file |-> calib_files[arm], routine |-> "none", wrote |-> FALSE,
        calibration |-> calib_files[arm]]
  ELSE [file |-> calib_files[arm], routine |-> calibration_routine, wrote |-> TRUE,
        calibration |-> [by |-> calibration_routine, id |-> id]]

\* what one device call of connect() may do: return, or raise; a missing
\* calibration is saved before set_calibration is called, which may raise
StepOutcomes(st) ==
  {"ok", "raise"} \cup
    (IF st.fn = "calibrate" /\ load_or_run_calibration_(st.dev, 1).wrote
     THEN {"raise_applying"} ELSE {})

\* what the log keeps of load_or_run_calibration_ and set_calibration for
\* one arm: applied tells whether set_calibration returned; a routine or a
\* load that raises returns no record and writes nothing
Attempt(c, out) ==
  [file |-> c.file, routine |-> c.routine,
   wrote |-> c.wrote /\ out # "raise",
   calibration |-> IF out = "raise" THEN NoCalibration ELSE c.calibration,
   applied |-> out = "ok"]

\* the results a routine run on this arm may produce
RoutineResults(st) ==
  IF st.fn = "calibrate" /\ calib_files[st.dev] = NoCalibration THEN 1..MaxRecords ELSE {1}

\* activate_calibration: followers first, then leaders
activate_calibration ==
  [k \in 1..Len(Followers) |-> Step("calibrate", Followers[k], "", "")]
    \o [k \in 1..Len(Leaders) |-> Step("calibrate", Leaders[k], "", "")]

\* connect() with the preset applied before activate_calibration
ConnectPlan_PresetBeforeCalibration ==
  [k \in 1..Len(Leaders) |-> Step("connect", Leaders[k], "", "")]
    \o [k \in 1..Len(Followers) |-> Step("connect", Followers[k], "", "")]
    \o [k \in 1..Len(Cameras) |-> Step("connect", Cameras[k], "", "")]
    \o [k \in 1..Len(Sensors) |-> Step("connect", Sensors[k], "", "")]
    \o (IF robot_type = "aloha" THEN set_aloha_robot_preset
        ELSE IF robot_type \in {"koch", "koch_bimanual"} THEN set_koch_robot_preset
        ELSE IF robot_type = "so100" THEN set_so100_robot_preset
        ELSE <<>>)
    \o activate_calibration

\* connect() that calibrates the arms before it connects the devices
ConnectPlan_CalibrationBeforeConnect ==
  activate_calibration
    \o [k \in 1..Len(Leaders) |-> Step("connect", Leaders[k], "", "")]
    \o [k \in 1..Len(Followers) |-> Step("connect", Followers[k], "", "")]
    \o [k \in 1..Len(Cameras) |-> Step("connect", Cameras[k], "", "")]
    \o [k \in 1..Len(Sensors) |-> Step("connect", Sensors[k], "", "")]
    \o (IF robot_type = "aloha" THEN set_aloha_robot_preset
        ELSE IF robot_type \in {"koch", "koch_bimanual"} THEN set_koch_robot_preset
        ELSE IF robot_type = "so100" THEN set_so100_robot_preset
        ELSE <<>>)

\* the device calls of connect() after its two guards, in program order
ConnectPlan ==
  [k \in 1..Len(Leaders) |-> Step("connect", Leaders[k], "", "")]
    \o [k \in 1..Len(Followers) |-> Step("connect", Followers[k], "", "")]
    \o [k \in 1..Len(Cameras) |-> Step("connect", Cameras[k], "", "")]
    \o [k \in 1..Len(Sensors) |-> Step("connect", Sensors[k], "", "")]
    \o activate_calibration
    \o (IF robot_type = "aloha" THEN set_aloha_robot_preset
        ELSE IF robot_type \in {"koch", "koch_bimanual"} THEN set_koch_robot_preset
        ELSE IF robot_type = "so100" THEN set_so100_robot_preset
        ELSE <<>>)

\* ------------------------------------------------------------- connect()
\* connect() without its first guard
AlreadyConnectedGuard_Never == FALSE

\* the guard of line 374
AlreadyConnectedGuard == is_connected

\* connect() called by the application: the two guards, then the frame
\* that walks ConnectPlan
CallConnect ==
  /\ Idle
  /\ IF AlreadyConnectedGuard
     THEN /\ lastOp' = ApiResult("connect", is_connected, "AlreadyConnected", <<>>, NoRet)
          /\ UNCHANGED <<stack, discCalls>>
     ELSE IF leader_arms = <<>> /\ follower_arms = <<>> /\ cameras = <<>>
     THEN /\ lastOp' = ApiResult("connect", is_connected, "ValueError", <<>>, NoRet)
          /\ UNCHANGED <<stack, discCalls>>
     ELSE /\ stack' = Push([Frame("connect", "plan", 1, "none") EXCEPT !.conn = is_connected])
          /\ discCalls' = [d \in AllDevices |-> 0]
          /\ lastOp' = NoOp
  /\ UNCHANGED <<config, is_connected, handlers, exc, phase,
                 calib_files, calibrated, clamp, tactile, logs, critical, schema>>

\* one device call of connect(); the device may raise instead of returning
ConnectStep ==
  /\ Running("connect", "plan")
  /\ Top.i <= Len(ConnectPlan)
  /\ LET st == ConnectPlan[Top.i]
     IN \E out \in StepOutcomes(st), id \in RoutineResults(st) :
          LET c == load_or_run_calibration_(st.dev, id)
              f == [Top EXCEPT !.i = @ + 1,
                               !.log = Append(@, IF st.fn = "calibrate"
                                                 THEN [st EXCEPT !.val = Attempt(c, out)]
                                                 ELSE st)]
          IN IF out = "ok"
             THEN /\ stack' = SetTop(f)
                  \* lines 446-447, then set_calibration (453, 456)
                  /\ calib_files' = IF st.fn = "calibrate" /\ c.wrote
                                    THEN [calib_files EXCEPT ![st.dev] = c.calibration]
                                    ELSE calib_files
                  /\ calibrated' = IF st.fn = "calibrate"
                                   THEN [calibrated EXCEPT ![st.dev] = c.calibration]
                                   ELSE calibrated
                  /\ UNCHANGED <<exc, lastOp>>
             ELSE /\ stack' = Pop
                  /\ exc' = IF st.fn = "read" /\ st.reg = "Torque_Enable"
                            THEN "ValueError" ELSE "DeviceError"
                  /\ lastOp' = ApiResult("connect", Top.conn, exc', f.log, NoRet)
                  /\ calib_files' = IF out = "raise_applying"
                                    THEN [calib_files EXCEPT ![st.dev] = c.calibration]
                                    ELSE calib_files
                  /\ UNCHANGED calibrated
  /\ UNCHANGED <<config, is_connected, handlers, phase, discCalls, clamp, tactile, logs, critical, schema>>

\* line 413
ConnectFinish ==
  /\ Running("connect", "plan")
  /\ Top.i > Len(ConnectPlan)
  /\ is_connected' = TRUE
  /\ stack' = Pop
  /\ lastOp' = ApiResult("connect", Top.conn, "none", Top.log, NoRet)
  /\ UNCHANGED <<config, handlers, exc, phase, discCalls,
                 calib_files, calibrated, clamp, tactile, logs, critical, schema>>

\* ------------------------------------------------- tactile sensor payloads
\* the keys of the dictionary a sensor's read() returns that the code looks at
PayloadFields(t) ==
  IF t = "tac3d"
  THEN {"SN", "index", "sendTimestamp", "recvTimestamp", "3D_Positions",
        "3D_Displacements", "3D_Forces", "resultant_force", "resultant_moment"}
  ELSE IF t \in {"gelsight", "digit"}
  THEN {"device_name", "frame_index", "timestamp", "tactile_image", "image"}
  ELSE {"data"}   \* no field of an unknown variant is looked at

\* "image" is the compatibility alias of "tactile_image": a sensor that
\* sends "tactile_image" normally does not send it
AliasFields(t) == IF t \in {"gelsight", "digit"} THEN {"image"} ELSE {}

\* a field of a payload is absent, present with None, or present with a
\* well-formed value
FieldStates == {"absent", "null", "value"}

RECURSIVE Degrade(_, _, _)
Degrade(P, F, k) ==
  IF k = 0 THEN P
  ELSE Degrade(P \cup {[p EXCEPT ![f] = st] : p \in P, f \in F, st \in {"absent", "null"}},
               F, k - 1)

\* the payload with every regular field set
Nominal(t) == [f \in PayloadFields(t) |-> IF f \in AliasFields(t) THEN "absent" ELSE "value"]

\* payloads in which at most MaxDefects of the regular fields are missing or
\* null, and those of them that carry the image under the alias instead
Payloads ==
  [t \in SensorTypes |->
     LET P == Degrade({Nominal(t)}, PayloadFields(t) \ AliasFields(t), MaxDefects)
     IN P \cup {[p EXCEPT ![a] = "value"] :
                 p \in {q \in P : "tactile_image" \in DOMAIN q /\ q["tactile_image"] # "value"},
                 a \in AliasFields(t)}]

Raised == [kind |-> "raise", f |-> <<>>]
NonePayload == [kind |-> "null", f |-> <<>>]
Payload(p) == [kind |-> "data", f |-> p]

\* what one sensor.read() does: raise, return None, return {} or a payload
ReadOutcomes ==
  [t \in SensorTypes |->
     {Raised, NonePayload, Payload([f \in PayloadFields(t) |-> "absent"])}
       \cup {Payload(p) : p \in Payloads[t]}]

\* the outcomes the control operations are explored with
CoarseOutcomes ==
  [t \in SensorTypes |-> {Raised, Payload([f \in PayloadFields(t) |->
                                            IF f \in AliasFields(t) THEN "absent" ELSE "value"])}]

\* `if data:` a dictionary with at least one key
Truthy(d) == d.kind = "data" /\ \E f \in DOMAIN d.f : d.f[f] # "absent"
\* `"f" in data`
Has(d, f) == f \in DOMAIN d.f /\ d.f[f] # "absent"
\* `"f" in data and data["f"] is not None`
NotNone(d, f) == Has(d, f) /\ d.f[f] # "null"

\* values of the observation: placeholders (src 0) and values taken from
\* the payload of sensor src
Zero == [src |-> 0, v |-> "zero"]
EmptyStr == [src |-> 0, v |-> "empty"]
Now == [src |-> 0, v |-> "now"]
Value(name, f) == [src |-> name, v |-> f]
NoneOf(name) == [src |-> name, v |-> "null"]

\* data.get(f, default)
Get(name, d, f, default) ==
  IF ~Has(d, f) THEN default
  ELSE IF d.f[f] = "null" THEN NoneOf(name) ELSE Value(name, f)

\* one assignment tactile_data[f"{name}_{k}"] = v; t: v goes through torch.tensor
Item(k, v, t) == [k |-> k, v |-> v, t |-> t]

\* lines 596-605 and 674-735
tac3d_items(name, d) ==
  <<Item("sensor_sn", Get(name, d, "SN", EmptyStr), FALSE),
    Item("frame_index", Get(name, d, "index", Zero), TRUE),
    Item("send_timestamp",
         IF Has(d, "sendTimestamp") THEN Get(name, d, "sendTimestamp", Zero)
         ELSE Get(name, d, "recvTimestamp", Zero), TRUE),
    Item("recv_timestamp", Get(name, d, "recvTimestamp", Zero), TRUE),
    Item("positions_3d",
         IF NotNone(d, "3D_Positions") THEN Value(name, "3D_Positions") ELSE Zero, FALSE),
    Item("displacements_3d",
         IF NotNone(d, "3D_Displacements") THEN Value(name, "3D_Displacements") ELSE Zero, FALSE),
    Item("forces_3d",
         IF NotNone(d, "3D_Forces") THEN Value(name, "3D_Forces") ELSE Zero, FALSE),
    Item("resultant_force",
         IF NotNone(d, "resultant_force") THEN Value(name, "resultant_force") ELSE Zero, FALSE),
    Item("resultant_moment",
         IF NotNone(d, "resultant_moment") THEN Value(name, "resultant_moment") ELSE Zero, FALSE)>>

\* lines 608-619 and 622-628: the metadata of the two image sensors
image_meta_items(name, d) ==
  <<Item("sensor_sn", Get(name, d, "device_name", EmptyStr), FALSE),
    Item("frame_index", Get(name, d, "frame_index", Zero), TRUE),
    Item("send_timestamp", Get(name, d, "timestamp", Now), TRUE),
    Item("recv_timestamp", Get(name, d, "timestamp", Now), TRUE)>>

\* lines 608-619 and 737-745: no image key is set when both fields are missing
gelsight_items(name, d) ==
  image_meta_items(name, d)
    \o (IF NotNone(d, "tactile_image") THEN <<Item("tactile_image", Value(name, "tactile_image"), FALSE)>>
        ELSE IF NotNone(d, "image") THEN <<Item("tactile_image", Value(name, "image"), FALSE)>>
        ELSE <<>>)

\* lines 622-667, then the else branch of lines 746-749
digit_items(name, d) ==
  image_meta_items(name, d)
    \o <<Item("tactile_image",
              IF NotNone(d, "tactile_image") THEN Value(name, "tactile_image")
              ELSE IF NotNone(d, "image") THEN Value(name, "image")
              ELSE Zero, FALSE),
         Item("resultant_force", Zero, FALSE),
         Item("resultant_moment", Zero, FALSE)>>

\* lines 668-670 and 746-749: no metadata is set
unknown_items(name, d) ==
  <<Item("resultant_force", Zero, FALSE), Item("resultant_moment", Zero, FALSE),
    Item("resultant_force", Zero, FALSE), Item("resultant_moment", Zero, FALSE)>>

\* the defaults that leave out the variant's own fields
default_items_MetadataOnly(t) ==
  <<Item("sensor_sn", EmptyStr, FALSE), Item("frame_index", Zero, TRUE),
    Item("send_timestamp", Zero, TRUE), Item("recv_timestamp", Zero, TRUE)>>

\* lines 751-773: the defaults when there is no data
default_items(t) ==
  <<Item("sensor_sn", EmptyStr, FALSE), Item("frame_index", Zero, TRUE),
    Item("send_timestamp", Zero, TRUE), Item("recv_timestamp", Zero, TRUE)>>
    \o (IF t = "tac3d"
        THEN <<Item("positions_3d", Zero, FALSE), Item("displacements_3d", Zero, FALSE),
               Item("forces_3d", Zero, FALSE), Item("resultant_force", Zero, FALSE),
               Item("resultant_moment", Zero, FALSE)>>
        ELSE IF t \in {"gelsight", "digit"}
        THEN <<Item("tactile_image", Zero, FALSE)>>
        ELSE <<Item("resultant_force", Zero, FALSE), Item("resultant_moment", Zero, FALSE)>>)

\* the body of the Stage 2 loop for one raw entry
sensor_items(name, d) ==
  LET t == tactile_sensors[name]
  IN IF Truthy(d)
     THEN IF t = "tac3d" THEN tac3d_items(name, d)
          ELSE IF t = "gelsight" THEN gelsight_items(name, d)
          ELSE IF t = "digit" THEN digit_items(name, d)
          ELSE unknown_items(name, d)
     ELSE default_items(t)

\* torch.tensor([None], dtype=...) raises TypeError
TensorFails(items) == \E i \in DOMAIN items : items[i].t /\ items[i].v.v = "null"

\* tactile_data after the assignments, made one after the other
RECURSIVE Assign(_, _, _)
Assign(data, name, items) ==
  IF items = <<>> THEN data
  ELSE Assign((<<name, Head(items).k>> :> Head(items).v) @@ data, name, Tail(items))

\* Stage 2, lines 588-773: tactile_data_raw is walked in insertion order
RECURSIVE Stage2(_, _)
Stage2(raw, data) ==
  IF raw = <<>> THEN [err |-> "none", data |-> data]
  ELSE LET items == sensor_items(Head(raw).name, Head(raw).data)
       IN IF TensorFails(items) THEN [err |-> "TypeError", data |-> data]
          ELSE Stage2(Tail(raw), Assign(data, Head(raw).name, items))

\* Stage 3 and the schema: metadata common to all variants
MetaKeys == <<"sensor_sn", "frame_index", "send_timestamp", "recv_timestamp">>

\* a schema in which a digit sensor also declares the force and the moment
feature_fields_DigitWithForce(t) ==
  MetaKeys \o
    (IF t = "tac3d"
     THEN <<"positions_3d", "displacements_3d", "forces_3d", "resultant_force", "resultant_moment">>
     ELSE IF t = "gelsight" THEN <<"tactile_image">>
     ELSE IF t = "digit" THEN <<"tactile_image", "resultant_force", "resultant_moment">>
     ELSE <<"resultant_force", "resultant_moment">>)

\* tactile_features, lines 271-329: the fields declared for a variant
feature_fields(t) ==
  MetaKeys \o
    (IF t = "tac3d"
     THEN <<"positions_3d", "displacements_3d", "forces_3d", "resultant_force", "resultant_moment">>
     ELSE IF t = "gelsight" THEN <<"tactile_image">>
     ELSE IF t = "digit" THEN <<"tactile_image">>
     ELSE <<"resultant_force", "resultant_moment">>)

ObsKey(t, name, field) == [type |-> t, name |-> name, field |-> field]

\* the keys tactile_features declares, sensors in registry order
tactile_features ==
  Flatten([n \in 1..Len(tactile_sensors) |->
             [i \in 1..Len(feature_fields(tactile_sensors[n])) |->
                ObsKey(tactile_sensors[n], n, feature_fields(tactile_sensors[n])[i])]])

\* ----------------------------------------------------- feature schema
\* one entry of the features mapping
Feature(key, dtype, shape, names) ==
  [key |-> key, dtype |-> dtype, shape |-> shape, names |-> names]

\* lines 250-329: dtype, shape and names declared for a field of a variant;
\* a gelsight image has the height and width of the sensor's configuration
tactile_feature(t, name, field) ==
  LET key == ObsKey(t, name, field)
  IN IF field = "sensor_sn" THEN Feature(key, "string", <<1>>, <<>>)
     ELSE IF field = "frame_index" THEN Feature(key, "int64", <<1>>, <<>>)
     ELSE IF field \in {"send_timestamp", "recv_timestamp"} THEN Feature(key, "float64", <<1>>, <<>>)
     ELSE IF field \in {"positions_3d", "displacements_3d", "forces_3d"}
     THEN Feature(key, "float64", <<400, 3>>, <<"marker_id", "coordinate">>)
     ELSE IF field \in {"resultant_force", "resultant_moment"}
     THEN Feature(key, "float64", <<3>>, <<"x", "y", "z">>)
     ELSE IF t = "gelsight"
     THEN Feature(key, "uint8", <<"imgh", "imgw", 3>>, <<"height", "width", "channel">>)
     ELSE Feature(key, "uint8", <<240, 320, 3>>, <<"height", "width", "channel">>)

\* the tactile_features property, lines 239-331
tactile_features_map ==
  [i \in 1..Len(tactile_features) |->
     tactile_feature(tactile_features[i].type, tactile_features[i].name, tactile_features[i].field)]

\* lines 227-237
camera_features ==
  [k \in 1..Len(cameras) |->
     Feature(ObsKey("camera", cameras[k], "image"), "video",
             <<"height", "width", "channels">>, <<"height", "width", "channels">>)]

\* lines 217-221: the motor names of the arms of a registry, in order
get_motor_names(arms) == Flatten([k \in 1..Len(arms) |-> motor_names])

\* lines 333-348: both descriptors are built from the leader arms
motor_features ==
  <<Feature(ObsKey("motor", 0, "action"), "float32",
            <<Len(get_motor_names(leader_arms))>>, get_motor_names(leader_arms)),
    Feature(ObsKey("motor", 0, "observation.state"), "float32",
            <<Len(get_motor_names(leader_arms))>>, get_motor_names(leader_arms))>>

\* a features property that is empty until the controller is connected
features_OnlyWhenConnected ==
  IF is_connected THEN motor_features \o camera_features \o tactile_features_map ELSE <<>>

\* lines 350-352
features == motor_features \o camera_features \o tactile_features_map

\* Stage 3, lines 782-832: the fields looked up for a variant
lookup_fields(t) ==
  MetaKeys \o
    (IF t = "tac3d"
     THEN <<"positions_3d", "displacements_3d", "forces_3d", "resultant_force", "resultant_moment">>
     ELSE IF t = "gelsight" THEN <<"tactile_image">>
     ELSE IF t = "digit" THEN <<"tactile_image">>
     ELSE <<"resultant_force", "resultant_moment">>)

\* lines 819, 825, 829: the lookup is guarded by `in tactile_data`
GuardedLookup(t, field) == t \notin {"tac3d", "gelsight"} /\ field \notin Range(MetaKeys)

\* an unguarded lookup of a key Stage 2 did not set raises KeyError
LookupFails(n, data) ==
  \E i \in DOMAIN lookup_fields(tactile_sensors[n]) :
     /\ <<n, lookup_fields(tactile_sensors[n])[i]>> \notin DOMAIN data
     /\ ~GuardedLookup(tactile_sensors[n], lookup_fields(tactile_sensors[n])[i])

sensor_entries(n, data) ==
  LET t  == tactile_sensors[n]
      ks == SelectSeq(lookup_fields(t), LAMBDA k : <<n, k>> \in DOMAIN data)
  IN [i \in 1..Len(ks) |-> [key |-> ObsKey(t, n, ks[i]), val |-> data[<<n, ks[i]>>]]]

\* Stage 3: self.tactile_sensors is walked in registry order
Stage3(data) ==
  IF \E n \in 1..Len(tactile_sensors) : LookupFails(n, data)
  THEN [err |-> "KeyError", obs |-> <<>>]
  ELSE [err |-> "none",
        obs |-> Flatten([n \in 1..Len(tactile_sensors) |-> sensor_entries(n, data)])]

\* lines 580-584: the exception of a worker is replaced by None
future_result(out) == IF out.kind = "raise" THEN NonePayload ELSE out

\* the result stored under the position at which the future completed
Collect_ByArrival(raw, fut, out) ==
  Append(raw, [name |-> Len(raw) + 1, data |-> future_result(out)])

\* a routine that falls back on what the sensor returned in the previous call
\* when its read raises
Collect_KeepsLast(raw, fut, out) ==
  Append(raw, [name |-> fut,
               data |-> IF out.kind = "raise" /\ fut \in DOMAIN tactile.prev
                        THEN future_result(tactile.prev[fut]) ELSE future_result(out)])

\* lines 578-584: future fut was submitted for the sensor of the same index,
\* future_to_name gives that name back whenever the future completes
Collect(raw, fut, out) ==
  Append(raw, [name |-> fut, data |-> future_result(out)])

RECURSIVE CollectAll(_, _, _)
CollectAll(raw, order, outs) ==
  IF order = <<>> THEN raw
  ELSE CollectAll(Collect(raw, Head(order), outs[Head(order)]), Tail(order), outs)

\* _get_tactile_observation for the completion order and the read outcomes
get_tactile_observation(order, outs) ==
  LET s2 == Stage2(CollectAll(<<>>, order, outs), <<>>)
  IN IF s2.err # "none" THEN [err |-> s2.err, obs |-> <<>>] ELSE Stage3(s2.data)

\* the completion orders of the workers
Orders(n) == {o \in [1..n -> 1..n] : \A i, j \in 1..n : o[i] = o[j] => i = j}

\* ------------------------------------------------- teleop_step, send_action
\* the operations without their is_connected guard
NotConnectedGuard_Never == FALSE

\* the guard of lines 838, 936 and 998
NotConnectedGuard == ~is_connected

\* lines 859-868 / 1014-1024 for one follower: the optional read of
\* Present_Position, the clamp, and the write of Goal_Position as float32
\* the goal kept as requested
safe_goal_Unclamped(goal_pos, present_pos) == goal_pos

safe_goal(goal_pos, present_pos) ==
  IF max_relative_target.kind # "none"
  THEN ensure_safe_goal_position(goal_pos, present_pos, max_relative_target)
  ELSE goal_pos

\* the write that sends the requested goal instead of the clamped one
GoalWrite_Unclamped(arm, goal_pos, present_pos) ==
  (IF max_relative_target.kind # "none"
   THEN <<Call("read", arm, "Present_Position", "all", present_pos)>>
   ELSE <<>>)
    \o <<Call("write", arm, "Goal_Position", "all", AsFloat32(goal_pos))>>

GoalWrite(arm, goal_pos, present_pos) ==
  (IF max_relative_target.kind # "none"
   THEN <<Call("read", arm, "Present_Position", "all", present_pos)>>
   ELSE <<>>)
    \o <<Call("write", arm, "Goal_Position", "all", AsFloat32(safe_goal(goal_pos, present_pos)))>>

LeaderIndex(name) == CHOOSE k \in 1..Len(leader_arms) : leader_arms[k] = name

\* followers whose goal is written before leader_pos[name] raises KeyError
FollowersServed ==
  IF \A k \in 1..Len(follower_arms) : follower_arms[k] \in Range(leader_arms)
  THEN Len(follower_arms)
  ELSE (CHOOSE k \in 1..Len(follower_arms) :
          /\ follower_arms[k] \notin Range(leader_arms)
          /\ \A j \in 1..(k - 1) : follower_arms[j] \in Range(leader_arms)) - 1

\* the read outcomes of the sensors of the registry
SensorOutcomes(O) ==
  {o \in [1..Len(tactile_sensors) -> UNION {O[t] : t \in SensorTypes}] :
     \A n \in 1..Len(tactile_sensors) : o[n] \in O[tactile_sensors[n]]}

\* a capture in which no device raises and no sensor is read
Quiet == [fpos |-> [k \in 1..Len(follower_arms) |-> [i \in 1..NumMotors |-> 0]],
          ffail |-> 0, cfail |-> 0, order |-> <<>>, outs |-> <<>>]

\* what the devices do during one capture: fpos, the positions the followers
\* return; ffail / cfail, the follower / camera whose read raises (0: none);
\* order, outs: the completion order and the outcomes of the tactile reads
\* (a read that is never reached has no outcome)
DeviceBehaviours ==
  {[Quiet EXCEPT !.ffail = k] : k \in 1..Len(follower_arms)}
    \cup {[Quiet EXCEPT !.fpos = f, !.cfail = k] :
            f \in [1..Len(follower_arms) -> PosVec], k \in 1..Len(cameras)}
    \cup {[Quiet EXCEPT !.fpos = f, !.order = o, !.outs = u] :
            f \in [1..Len(follower_arms) -> PosVec],
            o \in Orders(Len(tactile_sensors)), u \in SensorOutcomes(CoarseOutcomes)}

\* has_critical_error() of the k-th sensor
Flagged(k) == \E e \in critical : e.sensor = k

\* a poll that records an entry for every sensor, flagged or not
poll_critical_errors_EverySensor ==
  {[sensor |-> k, msg |-> "Unknown critical error"] : k \in 1..Len(tactile_sensors)}

\* a poll that rebuilds the critical-error entries from the sensors flagged now
poll_critical_errors_CurrentOnly == critical

\* lines 968-978 (and 910-920): self.logs after the poll of every sensor;
\* a flagged sensor's two entries replace the ones an earlier poll left
poll_critical_errors ==
  {e \in logs : ~Flagged(e.sensor)} \cup critical

\* lines 941-986 (and 876-927): follower reads, torch.cat, camera reads,
\* tactile observation, assembly; no read is inside a try block
capture(b) ==
  LET nf == IF b.ffail > 0 THEN b.ffail ELSE Len(Followers)
      nc == IF b.cfail > 0 THEN b.cfail ELSE Len(Cameras)
      freads == [k \in 1..nf |-> Call("read", Followers[k], "Present_Position", "all",
                                      IF k = b.ffail THEN <<>> ELSE b.fpos[k])]
      creads == [k \in 1..nc |-> Call("async_read", Cameras[k], "", "", <<>>)]
      treads == [k \in 1..Len(Sensors) |-> Call("read", Sensors[k], "", "", <<>>)]
      tac    == get_tactile_observation(b.order, b.outs)
      polls  == [k \in 1..Len(Sensors) |->
                   Call("has_critical_error", Sensors[k], "", "", Flagged(k))]
      images == [k \in 1..Len(Cameras) |->
                   [key |-> ObsKey("camera", cameras[k], "image"), val |-> Value(cameras[k], "frame")]]
  IN IF b.ffail > 0
     THEN [raised |-> "DeviceError", calls |-> freads, state |-> <<>>, obs |-> <<>>,
           logs |-> logs]
     ELSE IF follower_arms = <<>>
     \* torch.cat of an empty list, lines 889 and 954
     THEN [raised |-> "RuntimeError", calls |-> freads, state |-> <<>>, obs |-> <<>>,
           logs |-> logs]
     ELSE IF b.cfail > 0
     THEN [raised |-> "DeviceError", calls |-> freads \o creads, state |-> <<>>, obs |-> <<>>,
           logs |-> logs]
     ELSE IF tac.err # "none"
     THEN [raised |-> tac.err, calls |-> freads \o creads \o treads, state |-> <<>>,
           obs |-> <<>>, logs |-> logs]
     ELSE [raised |-> "none", calls |-> freads \o creads \o treads \o polls,
           state |-> Flatten(b.fpos), obs |-> images \o tac.obs,
           logs |-> poll_critical_errors]

\* teleop_step that returns the leader pose instead of the goal it wrote
teleop_step_ReturnsLeaderPose(record_data, lpos, ppos, b) ==
  LET n      == FollowersServed
      reads  == [k \in 1..Len(Leaders) |->
                   Call("read", Leaders[k], "Present_Position", "all", lpos[k])]
      goal(k)  == lpos[LeaderIndex(follower_arms[k])]
      writes == Flatten([k \in 1..n |-> GoalWrite(Followers[k], goal(k), ppos[k])])
      action == Flatten([k \in 1..n |-> goal(k)])
      c      == capture(b)
  IN IF n < Len(follower_arms)
     THEN ApiResult("teleop_step", is_connected, "KeyError", reads \o writes, NoRet)
     ELSE IF ~record_data
     THEN ApiResult("teleop_step", is_connected, "none", reads \o writes, NoRet)
     ELSE IF c.raised # "none"
     THEN ApiResult("teleop_step", is_connected, c.raised, reads \o writes \o c.calls, NoRet)
     ELSE ApiResult("teleop_step", is_connected, "none", reads \o writes \o c.calls,
                    [NoRet EXCEPT !.state = c.state, !.action = action, !.obs = c.obs])

teleop_step(record_data, lpos, ppos, b) ==
  LET n      == FollowersServed
      reads  == [k \in 1..Len(Leaders) |->
                   Call("read", Leaders[k], "Present_Position", "all", lpos[k])]
      goal(k)  == lpos[LeaderIndex(follower_arms[k])]
      writes == Flatten([k \in 1..n |-> GoalWrite(Followers[k], goal(k), ppos[k])])
      action == Flatten([k \in 1..n |-> safe_goal(goal(k), ppos[k])])
      c      == capture(b)
  IN IF n < Len(follower_arms)
     THEN ApiResult("teleop_step", is_connected, "KeyError", reads \o writes, NoRet)
     ELSE IF ~record_data
     THEN ApiResult("teleop_step", is_connected, "none", reads \o writes, NoRet)
     ELSE IF c.raised # "none"
     THEN ApiResult("teleop_step", is_connected, c.raised, reads \o writes \o c.calls, NoRet)
     ELSE ApiResult("teleop_step", is_connected, "none", reads \o writes \o c.calls,
                    [NoRet EXCEPT !.state = c.state, !.action = action, !.obs = c.obs])

\* self.logs after teleop_step: the poll of lines 910-920 is reached only
\* when data is recorded and every follower was served
teleop_logs(record_data, b) ==
  IF record_data /\ FollowersServed = Len(follower_arms) THEN capture(b).logs ELSE logs

\* the Present_Position values the followers return when they are read
\* (values that are never read do not distinguish two calls)
Readings(isRead) ==
  IF isRead THEN [1..Len(follower_arms) -> PosVec]
  ELSE {[k \in 1..Len(follower_arms) |-> [i \in 1..NumMotors |-> 0]]}

TeleopStep ==
  /\ Idle /\ lastOp = NoOp
  /\ \E record_data \in BOOLEAN :
       IF NotConnectedGuard
       THEN /\ lastOp' = ApiResult("teleop_step", is_connected, "NotConnected", <<>>, NoRet)
            /\ UNCHANGED logs
       ELSE \E lpos \in [1..Len(leader_arms) -> PosVec],
               ppos \in Readings(max_relative_target.kind # "none"),
               b \in (IF record_data THEN DeviceBehaviours ELSE {Quiet}) :
              /\ lastOp' = [teleop_step(record_data, lpos, ppos, b) EXCEPT !.arg = <<record_data>>]
              /\ logs' = teleop_logs(record_data, b)
  /\ UNCHANGED <<config, is_connected, handlers, stack, exc, phase,
                 discCalls, calib_files, calibrated, clamp, tactile, critical, schema>>

send_action(action, ppos) ==
  LET seg(k) == [i \in 1..NumMotors |-> action[(k - 1) * NumMotors + i]]
      writes == Flatten([k \in 1..Len(Followers) |-> GoalWrite(Followers[k], seg(k), ppos[k])])
      sent   == Flatten([k \in 1..Len(Followers) |-> safe_goal(seg(k), ppos[k])])
  IN IF follower_arms = <<>>
     \* torch.cat of an empty list, line 1026
     THEN ApiResult("send_action", is_connected, "RuntimeError", writes, NoRet)
     ELSE ApiResult("send_action", is_connected, "none", writes,
                    [NoRet EXCEPT !.action = sent])

SendAction ==
  /\ Idle /\ lastOp = NoOp
  /\ IF NotConnectedGuard
     THEN lastOp' = ApiResult("send_action", is_connected, "NotConnected", <<>>, NoRet)
     ELSE \E action \in [1..(NumMotors * Len(follower_arms)) -> Pos],
             ppos \in Readings(max_relative_target.kind # "none") :
            lastOp' = [send_action(action, ppos) EXCEPT !.arg = action]
  /\ UNCHANGED <<config, is_connected, handlers, stack, exc, phase,
                 discCalls, calib_files, calibrated, clamp, tactile, logs, critical, schema>>

capture_observation(b) ==
  LET c == capture(b)
  IN ApiResult("capture_observation", is_connected, c.raised, c.calls,
               [NoRet EXCEPT !.state = c.state, !.obs = c.obs])

CaptureObservation ==
  /\ Idle /\ lastOp = NoOp
  /\ IF NotConnectedGuard
     THEN /\ lastOp' = ApiResult("capture_observation", is_connected, "NotConnected", <<>>, NoRet)
          /\ UNCHANGED logs
     ELSE \E b \in DeviceBehaviours :
            /\ lastOp' = [capture_observation(b) EXCEPT
                           !.arg = <<b.ffail, b.cfail, {n \in DOMAIN b.outs : b.outs[n].kind = "raise"}>>]
            /\ logs' = capture(b).logs
  /\ UNCHANGED <<config, is_connected, handlers, stack, exc, phase,
                 discCalls, calib_files, calibrated, clamp, tactile, critical, schema>>

\* the application reads robot.features
Features ==
  /\ Idle /\ lastOp = NoOp
  /\ lastOp' = ApiResult("features", is_connected, "none", <<>>,
                         [NoRet EXCEPT !.features = features])
  /\ schema' = IF schema.read THEN schema
               ELSE [read |-> TRUE, conn |-> is_connected, map |-> features]
  /\ UNCHANGED <<config, is_connected, handlers, stack, exc, phase,
                 discCalls, calib_files, calibrated, clamp, tactile, logs, critical>>

\* ------------------------------------------------------------ disconnect()
\* follower arms, leader arms, cameras, tactile sensors: lines 1062-1087
DisconnectOrder == Followers \o Leaders \o Cameras \o Sensors

\* robot.disconnect() called by the application
CallDisconnect ==
  /\ Idle
  /\ stack' = Push(Frame("disconnect", "guard", 1, "none"))
  /\ lastOp' = NoOp
  /\ UNCHANGED <<config, is_connected, handlers, exc, phase,
                 discCalls, calib_files, calibrated, clamp, tactile, logs, critical, schema>>

\* disconnect() that goes on to the device loops when not connected
DisconnectGuard_NoRaise ==
  /\ Running("disconnect", "guard")
  /\ stack' = SetTop([Top EXCEPT !.pc = "loop", !.conn = is_connected])
  /\ UNCHANGED <<config, is_connected, handlers, exc, phase,
                 discCalls, calib_files, calibrated, lastOp, clamp, tactile, logs, critical, schema>>

\* lines 1057-1060
DisconnectGuard ==
  /\ Running("disconnect", "guard")
  /\ IF NotConnectedGuard
     THEN /\ stack' = Pop
          /\ exc' = "NotConnected"
          /\ lastOp' = IF Len(stack) = 1
                       THEN ApiResult("disconnect", is_connected, "NotConnected", <<>>, NoRet)
                       ELSE lastOp
     ELSE /\ stack' = SetTop([Top EXCEPT !.pc = "loop", !.conn = is_connected])
          /\ UNCHANGED <<exc, lastOp>>
  /\ UNCHANGED <<config, is_connected, handlers, phase,
                 discCalls, calib_files, calibrated, clamp, tactile, logs, critical, schema>>

\* the loops without try / except: a device error leaves disconnect()
DisconnectDevice_Propagates ==
  /\ Running("disconnect", "loop")
  /\ Top.i <= Len(DisconnectOrder)
  /\ LET d == DisconnectOrder[Top.i]
         f == [Top EXCEPT !.log = Append(@, Call("disconnect", d, "", "", <<>>))]
     IN /\ discCalls' = [discCalls EXCEPT ![d] = Min(@ + 1, MaxCount)]
        /\ \E ok \in BOOLEAN :
             IF ok
             THEN /\ stack' = SetTop([f EXCEPT !.i = @ + 1])
                  /\ UNCHANGED <<exc, lastOp>>
             ELSE /\ stack' = Pop
                  /\ exc' = "DeviceError"
                  /\ lastOp' = IF Len(stack) = 1
                               THEN ApiResult("disconnect", Top.conn, "DeviceError", f.log, NoRet)
                               ELSE lastOp
  /\ UNCHANGED <<config, is_connected, handlers, phase, calib_files, calibrated, clamp, tactile, logs, critical, schema>>

\* one iteration of the four loops: device.disconnect() inside try / except
\* Exception; a tactile sensor that raised goes through the forced cleanup
DisconnectDevice ==
  /\ Running("disconnect", "loop")
  /\ Top.i <= Len(DisconnectOrder)
  /\ LET d == DisconnectOrder[Top.i]
         f == [Top EXCEPT !.log = Append(@, Call("disconnect", d, "", "", <<>>))]
         g == [f EXCEPT !.err = "DeviceError"]
     IN /\ discCalls' = [discCalls EXCEPT ![d] = Min(@ + 1, MaxCount)]
        /\ \E ok \in BOOLEAN :
             IF ok
             THEN stack' = SetTop([f EXCEPT !.i = @ + 1])
             ELSE stack' = SetTop(IF d.cls = "tactile" THEN [g EXCEPT !.pc = "force"]
                                  ELSE [g EXCEPT !.i = @ + 1])
  /\ UNCHANGED <<config, is_connected, handlers, exc, phase, calib_files,
                 calibrated, lastOp, clamp, tactile, logs, critical, schema>>

\* lines 1095-1137: the forced cleanup of a sensor whose disconnect() raised
DisconnectForceCleanup ==
  /\ Running("disconnect", "force")
  /\ stack' = SetTop([Top EXCEPT !.pc = "loop", !.i = @ + 1])
  /\ UNCHANGED <<config, is_connected, handlers, exc, phase, discCalls,
                 calib_files, calibrated, lastOp, clamp, tactile, logs, critical, schema>>

\* line 1139
DisconnectFinish ==
  /\ Running("disconnect", "loop")
  /\ Top.i > Len(DisconnectOrder)
  /\ is_connected' = FALSE
  /\ stack' = Pop
  /\ lastOp' = IF Len(stack) = 1
               THEN [ApiResult("disconnect", Top.conn, "none", Top.log, NoRet)
                       EXCEPT !.absorbed = Top.err]
               ELSE lastOp
  /\ UNCHANGED <<config, handlers, exc, phase, discCalls,
                 calib_files, calibrated, clamp, tactile, logs, critical, schema>>

\* --------------------------------------- the three guarded teardown paths
TeardownPaths == {"handler", "atexit", "del"}

\* the teardown paths calling disconnect() without testing is_connected
ConnectedCheck_Always == TRUE

\* `if self.is_connected: self.disconnect()` of lines 191, 211 and 1145
ConnectedCheck == is_connected

\* the test and, when it passes, the call of disconnect()
TeardownCheck ==
  /\ stack # <<>> /\ exc = "none" /\ Top.op \in TeardownPaths /\ Top.pc = "check"
  /\ IF ConnectedCheck
     THEN stack' = Append(SetTop([Top EXCEPT !.pc = "call", !.conn = is_connected]),
                          Frame("disconnect", "guard", 1, "none"))
     ELSE stack' = SetTop([Top EXCEPT !.pc = IF Top.op = "handler" THEN "restore" ELSE "return",
                                      !.conn = is_connected])
  /\ UNCHANGED <<config, is_connected, handlers, exc, phase,
                 discCalls, calib_files, calibrated, lastOp, clamp, tactile, logs, critical, schema>>

\* disconnect() returned to the path that called it
TeardownReturn ==
  /\ stack # <<>> /\ exc = "none" /\ Top.op \in TeardownPaths /\ Top.pc \in {"call", "return"}
  /\ IF Top.op = "handler"
     THEN stack' = SetTop([Top EXCEPT !.pc = "restore"])
     ELSE stack' = Pop
  /\ UNCHANGED <<config, is_connected, handlers, exc, phase,
                 discCalls, calib_files, calibrated, lastOp, clamp, tactile, logs, critical, schema>>

\* ------------------------------------------------------- _signal_handler
\* a signal arrives between two steps of the control thread
DeliverSignal ==
  /\ phase \in {"running", "atexit"}
  /\ exc = "none"
  /\ \E sig \in Signals :
       IF handlers[sig] = "robot"
       THEN /\ Cardinality({k \in DOMAIN stack : stack[k].op = "handler"}) < MaxNesting
            /\ stack' = Push(Frame("handler", "check", 0, sig))
            /\ UNCHANGED <<exc, phase>>
       ELSE IF sig = "SIGINT"
       \* original disposition of SIGINT: KeyboardInterrupt in the control thread
       THEN /\ exc' = "KeyboardInterrupt"
            /\ UNCHANGED <<stack, phase>>
       \* original disposition of SIGTERM: the process is terminated at once
       ELSE /\ phase' = "ended"
            /\ stack' = <<>>
            /\ UNCHANGED exc
  /\ lastOp' = NoOp
  /\ UNCHANGED <<config, is_connected, handlers, discCalls,
                 calib_files, calibrated, clamp, tactile, logs, critical, schema>>

\* lines 197-200, in the finally clause
HandlerRestore ==
  /\ Running("handler", "restore")
  /\ handlers' = [handlers EXCEPT ![Top.sig] = "original"]
  /\ stack' = SetTop([Top EXCEPT !.pc = "raise"])
  /\ UNCHANGED <<config, is_connected, exc, phase, discCalls,
                 calib_files, calibrated, lastOp, clamp, tactile, logs, critical, schema>>

\* lines 203-206
HandlerRaise ==
  /\ Running("handler", "raise")
  /\ exc' = IF Top.sig = "SIGINT" THEN "KeyboardInterrupt" ELSE "SystemExit"
  /\ stack' = Pop
  /\ UNCHANGED <<config, is_connected, handlers, phase, discCalls, calib_files, calibrated, lastOp, clamp, tactile, logs, critical, schema>>

\* ------------------------------------------ _cleanup_at_exit and __del__
\* the process exits: the registered exit hook runs
ProcessExit ==
  /\ Idle
  /\ phase' = "atexit"
  /\ stack' = Push(Frame("atexit", "check", 0, "none"))
  /\ lastOp' = NoOp
  /\ UNCHANGED <<config, is_connected, handlers, exc, discCalls, calib_files, calibrated, clamp, tactile, logs, critical, schema>>

\* the exit hook is over (an exception leaving it is only reported): the
\* interpreter finalizes the object
Finalize ==
  /\ stack = <<>> /\ phase = "atexit"
  /\ phase' = "finalize"
  /\ exc' = "none"
  /\ stack' = Push(Frame("del", "check", 0, "none"))
  /\ UNCHANGED <<config, is_connected, handlers, discCalls, calib_files, calibrated, lastOp, clamp, tactile, logs, critical, schema>>

ProcessEnd ==
  /\ stack = <<>> /\ phase = "finalize"
  /\ phase' = "ended"
  /\ exc' = "none"
  /\ UNCHANGED <<config, is_connected, handlers, stack, discCalls, calib_files, calibrated, lastOp, clamp, tactile, logs, critical, schema>>

\* __del__ runs while the process goes on
Destructor ==
  /\ Idle
  /\ stack' = Push(Frame("del", "check", 0, "none"))
  /\ lastOp' = NoOp
  /\ UNCHANGED <<config, is_connected, handlers, exc, phase, discCalls, calib_files, calibrated, clamp, tactile, logs, critical, schema>>

\* ------------------------------------------------- exception propagation
\* what the frame on top does with an exception that reaches it
\*   "catch"   an except clause takes it and the frame goes on
\*   "finally" the handler's finally clause runs (it ends with its own raise)
\*   "raise"   the frame is left and the exception propagates
Catches(f, e) ==
  CASE f.op = "handler" /\ f.pc \in {"check", "call"} ->
         IF e \in ExceptionClass THEN {"catch"} ELSE {"finally"}
    [] f.op \in {"atexit", "del"} /\ f.pc \in {"check", "call"} ->
         IF e \in ExceptionClass THEN {"catch"} ELSE {"raise"}
    \* the bare except clauses inside the forced cleanup of a GelSight sensor
    [] f.op = "disconnect" /\ f.pc = "force" ->
         IF e \in ExceptionClass THEN {"catch"}
         ELSE IF sensor_type(DisconnectOrder[f.i]) = "gelsight" THEN {"catch", "raise"}
         ELSE {"raise"}
    [] OTHER -> {"raise"}

Unwind ==
  /\ stack # <<>> /\ exc # "none"
  /\ \E how \in Catches(Top, exc) :
       CASE how = "catch" ->
              /\ exc' = "none"
              /\ stack' = SetTop([Top EXCEPT
                            !.err = exc,
                            !.pc = IF Top.op = "handler" THEN "restore"
                                   ELSE IF Top.op \in {"atexit", "del"} THEN "return"
                                   ELSE @])
              /\ UNCHANGED lastOp
         [] how = "finally" ->
              /\ exc' = "none"
              /\ stack' = SetTop([Top EXCEPT !.pc = "restore"])
              /\ UNCHANGED lastOp
         [] how = "raise" ->
              /\ stack' = Pop
              /\ lastOp' = IF Len(stack) = 1 /\ Top.op \in {"connect", "disconnect"}
                           THEN [ApiResult(Top.op, Top.conn, exc, Top.log, NoRet)
                                   EXCEPT !.absorbed = Top.err]
                           ELSE lastOp
              /\ UNCHANGED exc
  /\ UNCHANGED <<config, is_connected, handlers, phase, discCalls, calib_files, calibrated, clamp, tactile, logs, critical, schema>>

\* an exception left the controller's code: the caller handles an error or
\* a KeyboardInterrupt and goes on, or the process exits
AppReceives ==
  /\ stack = <<>> /\ exc # "none" /\ phase = "running"
  /\ exc' = "none"
  /\ \E goOn \in BOOLEAN :
       /\ exc \in ExceptionClass => goOn
       /\ exc = "SystemExit" => ~goOn
       /\ IF goOn
          THEN UNCHANGED <<stack, phase>>
          ELSE /\ phase' = "atexit"
               /\ stack' = Push(Frame("atexit", "check", 0, "none"))
  /\ UNCHANGED <<config, is_connected, handlers, discCalls, calib_files, calibrated, lastOp, clamp, tactile, logs, critical, schema>>

\* a call returned or raised to the caller, which goes on with its loop
AppReturns ==
  /\ Idle
  /\ lastOp # NoOp
  /\ lastOp' = NoOp
  /\ UNCHANGED <<config, is_connected, handlers, stack, exc, phase, discCalls,
                 calib_files, calibrated, clamp, tactile, logs, critical, schema>>

\* ------------------------------------------------------ specifications
NextControl ==
  \/ CallConnect \/ ConnectStep \/ ConnectFinish
  \/ TeleopStep \/ SendAction \/ CaptureObservation
  \/ CallDisconnect \/ DisconnectGuard \/ DisconnectDevice
  \/ DisconnectForceCleanup \/ DisconnectFinish
  \/ AppReceives \/ AppReturns

Next ==
  \/ NextControl
  \/ Unwind \/ DeliverSignal \/ TeardownCheck \/ TeardownReturn \/ HandlerRestore \/ HandlerRaise
  \/ ProcessExit \/ Finalize \/ ProcessEnd \/ Destructor

Spec == Init /\ [][Next]_vars

SpecControl == InitControl /\ [][NextControl]_vars

\* configurations for the motion commands: up to MotionArms leader/follower
\* pairs, no camera, no sensor, every relative-target bound
InitMotion ==
  /\ follower_arms \in {SortedSeq(S) : S \in SUBSET (1..MotionArms)}
  /\ leader_arms = follower_arms
  /\ cameras = <<>> /\ tactile_sensors = <<>>
  /\ robot_type = "so101" /\ gripper_open_degree = <<>>
  /\ max_relative_target \in {NoTarget} \cup Targets
  /\ InitRobot
  /\ calib_files = [a \in Arms |-> StoredCalibration]
  /\ clamp = IdleClamp
  /\ tactile = IdleTactile

NextMotion ==
  \/ CallConnect \/ ConnectStep \/ ConnectFinish
  \/ TeleopStep \/ SendAction \/ CaptureObservation
  \/ CallDisconnect \/ DisconnectGuard \/ DisconnectDevice \/ DisconnectFinish
  \/ AppReceives \/ AppReturns

SpecMotion == InitMotion /\ [][NextMotion]_vars

\* --------------------------------------------- connects that calibrate
\* every arm registry and robot type, each calibration file present or missing
InitCalibration ==
  /\ follower_arms \in {SortedSeq(S) : S \in SUBSET (1..MaxArms)}
  /\ leader_arms \in {SortedSeq(S) : S \in SUBSET (1..MaxArms)}
  /\ cameras = <<>> /\ tactile_sensors = <<>>
  /\ robot_type \in RobotTypes
  /\ gripper_open_degree = <<>>
  /\ max_relative_target = NoTarget
  /\ InitRobot
  /\ clamp = IdleClamp
  /\ tactile = IdleTactile

NextCalibration ==
  \/ CallConnect \/ ConnectStep \/ ConnectFinish
  \/ CallDisconnect \/ DisconnectGuard \/ DisconnectDevice \/ DisconnectFinish
  \/ AppReceives \/ AppReturns

SpecCalibration == InitCalibration /\ [][NextCalibration]_vars

\* ------------------------------------------------- the feature schema
\* every device registry and sensor type
InitFeatures ==
  /\ InitDevices
  /\ robot_type = "so101" /\ gripper_open_degree = <<>>
  /\ max_relative_target = NoTarget
  /\ InitRobot
  /\ calib_files = [a \in Arms |-> StoredCalibration]
  /\ clamp = IdleClamp
  /\ tactile = IdleTactile

NextFeatures ==
  \/ CallConnect \/ ConnectStep \/ ConnectFinish
  \/ Features \/ TeleopStep \/ CaptureObservation
  \/ CallDisconnect \/ DisconnectGuard \/ DisconnectDevice \/ DisconnectFinish
  \/ AppReceives \/ AppReturns

SpecFeatures == InitFeatures /\ [][NextFeatures]_vars

\* ------------------------------------------ captures with latched sensors

\* a sensor's own thread latches its critical-error flag; the flag is never
\* cleared, and its status may or may not carry an 'error_message'
SensorLatches ==
  /\ is_connected
  /\ \E k \in 1..Len(tactile_sensors), m \in {"reported", "Unknown critical error"} :
       /\ ~Flagged(k)
       /\ critical' = critical \cup {[sensor |-> k, msg |-> m]}
  /\ UNCHANGED <<config, is_connected, handlers, stack, exc, phase, discCalls,
                 calib_files, calibrated, lastOp, clamp, tactile, logs, schema>>

\* one follower with its leader, one or more sensors that report arrays
\* (tac3d) or images (digit)
InitSensing ==
  /\ follower_arms = <<1>> /\ leader_arms = <<1>>
  /\ cameras = <<>>
  /\ tactile_sensors \in UNION {[1..k -> {"tac3d", "digit"}] : k \in 1..SensingSensors}
  /\ robot_type = "so101" /\ gripper_open_degree = <<>>
  /\ max_relative_target = NoTarget
  /\ InitRobot
  /\ calib_files = [a \in Arms |-> StoredCalibration]
  /\ clamp = IdleClamp
  /\ tactile = IdleTactile

NextSensing ==
  \/ CallConnect \/ ConnectStep \/ ConnectFinish
  \/ TeleopStep \/ CaptureObservation
  \/ CallDisconnect \/ DisconnectGuard \/ DisconnectDevice \/ DisconnectFinish
  \/ AppReceives \/ AppReturns
  \/ SensorLatches

SpecSensing == InitSensing /\ [][NextSensing]_vars

\* has_critical_error() is answered by the sensor: a driver that recovers
\* (or is reset) answers False again
SensorClears ==
  /\ \E e \in critical : critical' = critical \ {e}
  /\ UNCHANGED <<config, is_connected, handlers, stack, exc, phase, discCalls,
                 calib_files, calibrated, lastOp, clamp, tactile, logs, schema>>

\* the session with sensors whose flag may be set and cleared at any time
NextLogs == NextSensing \/ SensorClears

SpecLogs == InitSensing /\ [][NextLogs]_vars

\* ------------------------------------- ensure_safe_goal_position alone
ClampAxes == 2   \* axes of the vectors the clamp is evaluated on
ClampPos  == 2   \* goal and present entries lie in -ClampPos..ClampPos
ClampMax  == 2   \* bound entries lie in 1..ClampMax

ClampVec == [1..ClampAxes -> (0 - ClampPos)..ClampPos]
ClampTargets ==
  {[kind |-> "scalar", val |-> <<b>>] : b \in 1..ClampMax}
    \cup {[kind |-> "list", val |-> l] : l \in [1..ClampAxes -> 1..ClampMax]}

InitClamp ==
  /\ follower_arms = <<>> /\ leader_arms = <<>> /\ cameras = <<>> /\ tactile_sensors = <<>>
  /\ robot_type = "so101" /\ gripper_open_degree = <<>> /\ max_relative_target = NoTarget
  /\ InitRobot
  /\ \E g \in ClampVec, p \in ClampVec, m \in ClampTargets :
       clamp = [stage |-> "input", goal |-> g, present |-> p, mrt |-> m,
                result |-> <<>>, first |-> <<>>, warned |-> FALSE]
  /\ tactile = IdleTactile

\* safe_goal_pos = ensure_safe_goal_position(goal_pos, present_pos, bound)
ClampApply ==
  /\ clamp.stage = "input"
  /\ clamp' = [clamp EXCEPT !.stage = "clamped",
                            !.result = ensure_safe_goal_position(clamp.goal, clamp.present, clamp.mrt),
                            !.warned = ClampWarns(clamp.goal, clamp.present, clamp.mrt)]
  /\ UNCHANGED <<config, is_connected, handlers, stack, exc, phase, discCalls,
                 calib_files, calibrated, lastOp, tactile, logs, critical, schema>>

\* the result is clamped again against the same present position and bound
ClampAgain ==
  /\ clamp.stage = "clamped"
  /\ clamp' = [clamp EXCEPT !.stage = "reclamped",
                            !.first = clamp.result,
                            !.result = ensure_safe_goal_position(clamp.result, clamp.present, clamp.mrt),
                            !.warned = ClampWarns(clamp.result, clamp.present, clamp.mrt)]
  /\ UNCHANGED <<config, is_connected, handlers, stack, exc, phase, discCalls,
                 calib_files, calibrated, lastOp, tactile, logs, critical, schema>>

NextClamp == ClampApply \/ ClampAgain

SpecClamp == InitClamp /\ [][NextClamp]_vars

\* ------------------------------------- _get_tactile_observation alone
TactileSensors == 2   \* tactile sensors of the controller whose reads are explored
MaxCaptures == 2      \* consecutive calls of _get_tactile_observation

InitTactile ==
  /\ follower_arms = <<>> /\ leader_arms = <<>> /\ cameras = <<>>
  /\ tactile_sensors \in UNION {[1..k -> SensorTypes] : k \in 0..TactileSensors}
  /\ robot_type = "so101" /\ gripper_open_degree = <<>> /\ max_relative_target = NoTarget
  /\ InitRobot
  /\ clamp = IdleClamp
  /\ tactile = IdleTactile

\* line 577: one future per sensor, in registry order
TactileSubmit ==
  /\ tactile.stage = "idle"
  /\ tactile' = [tactile EXCEPT !.stage = "reading", !.pending = 1..Len(tactile_sensors)]
  /\ UNCHANGED <<config, is_connected, handlers, stack, exc, phase, discCalls,
                 calib_files, calibrated, lastOp, clamp, logs, critical, schema>>

\* lines 578-584: as_completed yields the next finished future, whichever it is
TactileComplete ==
  /\ tactile.stage = "reading"
  /\ \E fut \in tactile.pending \ tactile.hung : \E out \in ReadOutcomes[tactile_sensors[fut]] :
       tactile' = [tactile EXCEPT !.pending = @ \ {fut},
                                  !.read = (fut :> out) @@ @,
                                  !.raw = Collect(@, fut, out),
                                  !.reordered = @ \/ \E g \in tactile.pending : g < fut]
  /\ UNCHANGED <<config, is_connected, handlers, stack, exc, phase, discCalls,
                 calib_files, calibrated, lastOp, clamp, logs, critical, schema>>

\* a routine that gives up on the reads that stall and assembles the rest
TactileAssemble_TimesOut ==
  /\ tactile.stage = "reading"
  /\ tactile.pending \subseteq tactile.hung
  /\ tactile' = [tactile EXCEPT !.stage = "done", !.raw = <<>>]
  /\ UNCHANGED <<config, is_connected, handlers, stack, exc, phase, discCalls,
                 calib_files, calibrated, lastOp, clamp, logs, critical, schema>>

\* Stage 2 and Stage 3 once every future has completed, and the return
TactileAssemble ==
  /\ tactile.stage = "reading"
  /\ tactile.pending = {}
  /\ LET s2 == Stage2(tactile.raw, <<>>)
         s3 == IF s2.err # "none" THEN [err |-> s2.err, obs |-> <<>>] ELSE Stage3(s2.data)
     IN tactile' = [tactile EXCEPT !.stage = "done", !.raw = <<>>,
                                   !.err = s3.err, !.obs = s3.obs]
  /\ UNCHANGED <<config, is_connected, handlers, stack, exc, phase, discCalls,
                 calib_files, calibrated, lastOp, clamp, logs, critical, schema>>

\* the routine returns (or raises) and the next capture calls it again:
\* tactile_data_raw and tactile_data are locals, nothing is kept
TactileReturn ==
  /\ tactile.stage = "done"
  /\ tactile.call < MaxCaptures
  /\ tactile' = [IdleTactile EXCEPT !.call = tactile.call + 1,
                                    !.prev = tactile.read]
  /\ UNCHANGED <<config, is_connected, handlers, stack, exc, phase, discCalls,
                 calib_files, calibrated, lastOp, clamp, logs, critical, schema>>

\* the driver of a sensor stalls: its read() never returns
SensorHangs ==
  /\ tactile.stage = "reading"
  /\ \E fut \in tactile.pending \ tactile.hung :
       tactile' = [tactile EXCEPT !.hung = @ \cup {fut}]
  /\ UNCHANGED <<config, is_connected, handlers, stack, exc, phase, discCalls,
                 calib_files, calibrated, lastOp, clamp, logs, critical, schema>>

NextTactile == TactileSubmit \/ TactileComplete \/ TactileAssemble

\* one call in which reads may stall; a worker whose read() returns or
\* raises is collected, and the control thread goes on once as_completed
\* is exhausted
NextStall == TactileSubmit \/ TactileComplete \/ TactileAssemble \/ SensorHangs

\* the routine's sensors for the stalling reads: up to TactileSensors of them,
\* of one known and one unknown type
InitStall ==
  /\ follower_arms = <<>> /\ leader_arms = <<>> /\ cameras = <<>>
  /\ tactile_sensors \in UNION {[1..k -> {"digit", "unknown"}] : k \in 0..TactileSensors}
  /\ robot_type = "so101" /\ gripper_open_degree = <<>> /\ max_relative_target = NoTarget
  /\ InitRobot
  /\ clamp = IdleClamp
  /\ tactile = IdleTactile

SpecStall ==
  /\ InitStall /\ [][NextStall]_vars
  /\ WF_vars(TactileSubmit) /\ WF_vars(TactileComplete) /\ WF_vars(TactileAssemble)

\* consecutive calls of the routine
NextCaptures == TactileSubmit \/ TactileComplete \/ TactileAssemble \/ TactileReturn

SpecCaptures == InitStall /\ [][NextCaptures]_vars

SpecTactile == InitTactile /\ [][NextTactile]_vars

\* ================================================================ claims
Interrupts == {"KeyboardInterrupt", "SystemExit"}
IsGoalWrite(c) == c.fn = "write" /\ c.reg = "Goal_Position" /\ c.dev.cls = "follower"
Motion == {"teleop_step", "send_action"}
Guarded == {"teleop_step", "capture_observation", "send_action"}

\* C1: with a relative-target bound configured, every Goal_Position that
\* teleop_step or send_action writes to a follower is, on every joint, within
\* the bound of the Present_Position read from that follower just before.
C1_WritesWithinBound ==
  (lastOp.op \in Motion /\ max_relative_target.kind # "none") =>
    \A k \in DOMAIN lastOp.calls :
      IsGoalWrite(lastOp.calls[k]) =>
        /\ k > 1
        /\ lastOp.calls[k - 1].fn = "read"
        /\ lastOp.calls[k - 1].reg = "Present_Position"
        /\ lastOp.calls[k - 1].dev = lastOp.calls[k].dev
        /\ \A i \in 1..NumMotors :
             Abs(lastOp.calls[k].val[i] - lastOp.calls[k - 1].val[i])
               <= BoundAt(max_relative_target, i)

\* a send_action whose requested action was changed by the clamp, and a
\* teleop_step that wrote a goal
C1_Witness ==
  /\ lastOp.op = "send_action" /\ lastOp.raised = "none"
  /\ max_relative_target.kind # "none"
  /\ lastOp.ret.action # lastOp.arg
  /\ \E k \in DOMAIN lastOp.calls : IsGoalWrite(lastOp.calls[k])

\* C2: for bound > 0, scalar or per-axis, the clamp returns r with
\* |r[i] - present[i]| <= bound on every axis i.
C2_ClampWithinBound ==
  clamp.stage = "clamped" =>
    \A i \in DOMAIN clamp.result :
      Abs(clamp.result[i] - clamp.present[i]) <= BoundAt(clamp.mrt, i)

\* a per-axis bound that truncated a negative delta on one axis
C2_Witness ==
  /\ clamp.stage = "clamped" /\ clamp.mrt.kind = "list"
  /\ \E i \in DOMAIN clamp.result :
       /\ clamp.goal[i] - clamp.present[i] < 0 - BoundAt(clamp.mrt, i)
       /\ clamp.result[i] # clamp.goal[i]

AlreadySafe(goal, present, mrt) ==
  \A i \in DOMAIN goal : Abs(goal[i] - present[i]) <= BoundAt(mrt, i)

\* C3: the clamp returns an already-safe goal unchanged, and clamping its own
\* result again (same present, same bound) returns that result.
C3_ClampIdempotent ==
  /\ (clamp.stage = "clamped" /\ AlreadySafe(clamp.goal, clamp.present, clamp.mrt))
       => clamp.result = clamp.goal
  /\ clamp.stage = "reclamped" => clamp.result = clamp.first

\* a goal that the first clamp changed, clamped a second time
C3_Witness ==
  /\ clamp.stage = "reclamped"
  /\ clamp.first # clamp.goal
  /\ clamp.present # [i \in 1..ClampAxes |-> 0]

\* C4: connect() on a connected controller raises AlreadyConnected, makes no
\* device call (no connect, set_calibration or register write) and leaves the
\* controller connected.
C4_ConnectTwice ==
  (lastOp.op = "connect" /\ lastOp.conn) =>
    /\ lastOp.raised = "AlreadyConnected"
    /\ lastOp.calls = <<>>
    /\ is_connected
    /\ stack = <<>>

C4_Witness ==
  /\ lastOp.op = "connect" /\ lastOp.conn /\ lastOp.raised = "AlreadyConnected"
  /\ Devices # {}

\* C5: teleop_step, capture_observation and send_action called while not
\* connected raise NotConnected and make no device call; a call of theirs that
\* made a device call was made while connected.
C5_NotConnectedNoIo ==
  lastOp.op \in Guarded =>
    /\ ~lastOp.conn => (lastOp.raised = "NotConnected" /\ lastOp.calls = <<>>)
    /\ lastOp.calls # <<>> => lastOp.conn
    /\ lastOp.conn => lastOp.raised # "NotConnected"

\* a guarded operation refused after the devices were disconnected
C5_Witness ==
  /\ lastOp.op \in Guarded /\ lastOp.raised = "NotConnected"
  /\ follower_arms # <<>>
  /\ \A d \in Devices : discCalls[d] >= 1

\* C6: disconnect() on a controller that is not connected raises NotConnected,
\* calls disconnect() on no device and leaves the controller disconnected
\* (unless a signal's KeyboardInterrupt or SystemExit ends the call before its guard).
C6_DisconnectTwice ==
  (lastOp.op = "disconnect" /\ ~lastOp.conn /\ lastOp.raised \notin Interrupts) =>
    /\ lastOp.raised = "NotConnected"
    /\ lastOp.calls = <<>>
    /\ ~is_connected

\* the second disconnect() after one that disconnected every device once
C6_Witness ==
  /\ lastOp.op = "disconnect" /\ lastOp.raised = "NotConnected"
  /\ Devices # {}
  /\ \A d \in Devices : discCalls[d] = 1

\* C7: disconnect() on a connected controller calls disconnect() on every
\* device whichever of them raise, raises nothing itself and leaves the
\* controller disconnected (a call cut short by a signal's KeyboardInterrupt
\* or SystemExit is not the routine raising).
C7_DisconnectTotal ==
  (lastOp.op = "disconnect" /\ lastOp.conn /\ lastOp.raised \notin Interrupts) =>
    /\ lastOp.raised = "none"
    /\ \A d \in Devices : \E k \in DOMAIN lastOp.calls :
         lastOp.calls[k].fn = "disconnect" /\ lastOp.calls[k].dev = d
    /\ ~is_connected

\* three or more devices, one of which raised in its disconnect()
C7_Witness ==
  /\ lastOp.op = "disconnect" /\ lastOp.conn /\ lastOp.raised = "none"
  /\ lastOp.absorbed = "DeviceError"
  /\ Cardinality(Devices) >= 3

\* C8: between two connects every device receives at most one disconnect()
\* call, whichever teardown paths run and however they interleave.
C8_DisconnectedAtMostOnce ==
  \A d \in AllDevices : discCalls[d] <= 1

HandlerFrames == {stack[k] : k \in {j \in DOMAIN stack : stack[j].op = "handler"}}

\* C9: a handler that found the controller connected restores the original
\* handler only after every device got its disconnect() and the controller is
\* disconnected, and re-delivers the signal only after the restore.
C9_DisconnectRestoreRedeliver ==
  \A f \in HandlerFrames :
    /\ (f.pc \in {"restore", "raise"} /\ f.conn) =>
         (~is_connected /\ \A d \in Devices : discCalls[d] >= 1)
    /\ f.pc = "raise" => handlers[f.sig] = "original"

\* C10: the signal handler, the exit hook and __del__, entered on a controller
\* that is not connected, do not enter disconnect() (no device call, no
\* NotConnected), and no error of class Exception propagates out of them.
C10_TeardownPathsSafe ==
  /\ \A k \in DOMAIN stack :
       (stack[k].op \in TeardownPaths /\ stack[k].pc # "check" /\ ~stack[k].conn) =>
         /\ stack[k].err = "none"
         /\ k < Len(stack) => stack[k + 1].op = "handler"
  /\ \A k \in DOMAIN stack : stack[k].op \in TeardownPaths => stack[k].err # "NotConnected"
  /\ (exc \in ExceptionClass /\ stack = <<>>) => lastOp.raised = exc
  /\ (exc \in ExceptionClass /\ stack # <<>>) =>
       (Top.op \in TeardownPaths /\ Top.pc \in {"check", "call"})

\* __del__ entered after the devices were disconnected
C10_Witness ==
  /\ stack # <<>> /\ Top.op = "del" /\ Top.pc = "return" /\ ~Top.conn
  /\ Devices # {}
  /\ \A d \in Devices : discCalls[d] >= 1

\* ------------------------------------------------------- tactile claims
\* the entries of sensor n in the observation, in the order they appear
OwnEntries(n) == SelectSeq(tactile.obs, LAMBDA e : e.key.name = n)
KeysOf(entries) == [i \in DOMAIN entries |-> entries[i].key]
DeclaredKeys(n) ==
  [i \in 1..Len(feature_fields(tactile_sensors[n])) |->
     ObsKey(tactile_sensors[n], n, feature_fields(tactile_sensors[n])[i])]
IsPlaceholder(v) == v.src = 0 /\ v.v \in {"zero", "empty"}

\* C17: when the read() of a sensor raises, the observation that is returned
\* holds every key tactile_features declares for that sensor, each with a
\* zero or empty placeholder, for each of the four variants; and the failed
\* read is never what makes _get_tactile_observation raise: it raises only
\* when some other sensor returned a payload
C17_FailedReadPlaceholders ==
  tactile.stage = "done" =>
    \A n \in DOMAIN tactile.read :
       tactile.read[n].kind = "raise" =>
         /\ tactile.err = "none" =>
              /\ KeysOf(OwnEntries(n)) = DeclaredKeys(n)
              /\ \A i \in DOMAIN OwnEntries(n) : IsPlaceholder(OwnEntries(n)[i].val)
         /\ tactile.err # "none" =>
              \E m \in DOMAIN tactile.read : m # n /\ tactile.read[m].kind = "data"

\* every read of a two-sensor controller raised and the observation was returned
C17_Witness ==
  /\ tactile.stage = "done"
  /\ tactile.err = "none"
  /\ Len(tactile_sensors) = 2
  /\ \A n \in DOMAIN tactile.read : tactile.read[n].kind = "raise"
  /\ Len(tactile.obs) > 8

\* C18: for every variant and every payload (null, empty, or with fields
\* missing or null) _get_tactile_observation raises nothing and the keys of
\* the observation are exactly the keys tactile_features declares
C18_SchemaComplete ==
  tactile.stage = "done" =>
    /\ tactile.err = "none"
    /\ KeysOf(tactile.obs) = tactile_features

\* C20: in every completion order, the entries of a sensor in the returned
\* observation are those its own read outcome yields (a value never comes
\* from another sensor's payload, whatever the other sensors did), and the
\* keys are ordered by the registry, not by arrival
C20_KeyedBySubmitter ==
  (tactile.stage = "done" /\ tactile.err = "none") =>
    /\ \A n \in 1..Len(tactile_sensors) :
         /\ OwnEntries(n) =
              sensor_entries(n, Assign(<<>>, n, sensor_items(n, future_result(tactile.read[n]))))
         /\ \A i \in DOMAIN OwnEntries(n) : OwnEntries(n)[i].val.src \in {0, n}
    /\ \A i, j \in DOMAIN tactile.obs :
         i < j => tactile.obs[i].key.name <= tactile.obs[j].key.name

\* the second sensor finished first, its read failed, and the first
\* sensor's values are in the observation
C20_Witness ==
  /\ tactile.stage = "done"
  /\ tactile.err = "none"
  /\ Len(tactile_sensors) = 2
  /\ tactile.reordered
  /\ tactile.read[2].kind = "raise"
  /\ tactile.read[1].kind = "data"
  /\ tactile_sensors[1] = tactile_sensors[2]
  /\ \E i \in DOMAIN tactile.obs : tactile.obs[i].val.src = 1

\* ------------------------------------------------------- capture claims
\* the devices a capture reads
Readers == Range(Followers) \cup Range(Cameras) \cup Range(Sensors)
IsRead(c) == c.fn \in {"read", "async_read"}

\* C19: in a capture on a connected controller in which the read of one
\* device raises (a follower's Present_Position read, a camera's async_read
\* or a tactile sensor's read), nothing propagates to the caller and every
\* other device is still read
C19_ReadFailureAbsorbed ==
  (/\ lastOp.op = "capture_observation"
   /\ lastOp.conn
   /\ follower_arms # <<>>
   /\ (lastOp.arg[1] > 0 \/ lastOp.arg[2] > 0 \/ lastOp.arg[3] # {})) =>
    /\ lastOp.raised = "none"
    /\ \A d \in Readers : \E k \in DOMAIN lastOp.calls :
         IsRead(lastOp.calls[k]) /\ lastOp.calls[k].dev = d

\* -------------------------------------------------------- motion claims
GoalWritesOf(calls) == SelectSeq(calls, IsGoalWrite)
\* the k-th segment of a flat action: NumMotors entries per follower
Seg(a, k) == [i \in 1..NumMotors |-> a[(k - 1) * NumMotors + i]]
\* the goal a moved towards from p by at most the bound, axis by axis
Clamped(a, p, mrt) ==
  [i \in DOMAIN a |->
     IF a[i] - p[i] > BoundAt(mrt, i) THEN p[i] + BoundAt(mrt, i)
     ELSE IF p[i] - a[i] > BoundAt(mrt, i) THEN p[i] - BoundAt(mrt, i)
     ELSE a[i]]
\* C11: send_action(a) on a connected robot with no relative-target bound
\* returns exactly a, its device calls are exactly the Goal_Position writes
\* of a's segments, one per follower in registry order, and no follower
\* Present_Position is read
C11_NoBoundReturnsAction ==
  (/\ lastOp.op = "send_action"
   /\ lastOp.conn
   /\ max_relative_target.kind = "none") =>
    /\ lastOp.raised = "none"
    /\ lastOp.ret.action = lastOp.arg
    /\ lastOp.calls = [k \in 1..Len(Followers) |->
                         Call("write", Followers[k], "Goal_Position", "all", Seg(lastOp.arg, k))]

\* C12: on a connected single-follower robot with a relative-target bound,
\* send_action(a) reads the follower's present position p and returns a
\* moved towards from p by at most the bound on every axis
C12_BoundReturnsClamp ==
  (/\ lastOp.op = "send_action"
   /\ lastOp.conn
   /\ max_relative_target.kind # "none"
   /\ Len(follower_arms) = 1) =>
    /\ lastOp.raised = "none"
    /\ Len(lastOp.calls) = 2
    /\ lastOp.calls[1].fn = "read"
    /\ lastOp.calls[1].reg = "Present_Position"
    /\ lastOp.calls[1].dev = Followers[1]
    /\ lastOp.ret.action = Clamped(lastOp.arg, lastOp.calls[1].val, max_relative_target)

\* the bound changed the action
C12_Witness ==
  /\ lastOp.op = "send_action"
  /\ lastOp.conn
  /\ lastOp.raised = "none"
  /\ max_relative_target.kind # "none"
  /\ Len(follower_arms) = 1
  /\ lastOp.ret.action # lastOp.arg
  /\ lastOp.ret.action # lastOp.calls[1].val

\* C13: for any number of follower arms send_action issues exactly one
\* Goal_Position write per follower, in registry order; the k-th write
\* carries the k-th segment of the action, clamped against that follower's
\* present position when a bound is configured; and the value returned is
\* the concatenation of the values written
C13_ReturnsWhatWasWritten ==
  (lastOp.op = "send_action" /\ lastOp.conn) =>
    LET W == GoalWritesOf(lastOp.calls)
        R == SelectSeq(lastOp.calls, LAMBDA c : c.fn = "read")
    IN /\ Len(W) = Len(follower_arms)
       /\ \A k \in 1..Len(W) :
            /\ W[k].dev = Followers[k]
            /\ IF max_relative_target.kind = "none"
               THEN W[k].val = Seg(lastOp.arg, k)
               ELSE /\ Len(R) = Len(W)
                    /\ R[k].dev = Followers[k]
                    /\ W[k].val = Clamped(Seg(lastOp.arg, k), R[k].val, max_relative_target)
       /\ lastOp.raised = "none"
       /\ lastOp.ret.action = Flatten([k \in 1..Len(W) |-> W[k].val])

\* C14: teleop_step(record_data=False) on a connected controller issues
\* exactly one Goal_Position write per follower arm, calls no camera and no
\* tactile sensor, and returns no observation, whatever the arms, cameras
\* and sensors of the controller
C14_TeleopWritesOnly ==
  (/\ lastOp.op = "teleop_step"
   /\ lastOp.conn
   /\ lastOp.arg = <<FALSE>>) =>
    /\ lastOp.raised = "none"
    /\ Len(GoalWritesOf(lastOp.calls)) = Len(follower_arms)
    /\ \A k \in 1..Len(follower_arms) : GoalWritesOf(lastOp.calls)[k].dev = Followers[k]
    /\ \A k \in DOMAIN lastOp.calls : lastOp.calls[k].dev.cls \notin {"camera", "tactile"}
    /\ lastOp.ret = NoRet

\* C15: the action returned by teleop_step(record_data=True) is the
\* concatenation, in registry order, of the goals written to the followers
\* as Goal_Position in that call, one per follower
C15_TeleopReturnsWritten ==
  (/\ lastOp.op = "teleop_step"
   /\ lastOp.arg = <<TRUE>>
   /\ lastOp.raised = "none") =>
    LET W == GoalWritesOf(lastOp.calls)
    IN /\ Len(W) = Len(follower_arms)
       /\ \A k \in 1..Len(W) : W[k].dev = Followers[k]
       /\ lastOp.ret.action = Flatten([k \in 1..Len(W) |-> W[k].val])

\* two followers, and the clamp changed the pose read from the leaders
C15_Witness ==
  /\ lastOp.op = "teleop_step"
  /\ lastOp.arg = <<TRUE>>
  /\ lastOp.raised = "none"
  /\ Len(follower_arms) = 2
  /\ max_relative_target.kind # "none"
  /\ lastOp.ret.action #
       Flatten([k \in 1..Len(leader_arms) |->
                  SelectSeq(lastOp.calls, LAMBDA c : c.dev.cls = "leader")[k].val])

\* ---------------------------------------------------- calibration claim
IsMotionWrite(c) == c.fn = "write" /\ c.reg = "Goal_Position"
\* in a sequence of device calls, every arm is calibrated before any
\* Goal_Position write
CalibratedFirst(calls) ==
  \A k \in DOMAIN calls :
     IsMotionWrite(calls[k]) =>
       \A a \in Arms : \E j \in 1..(k - 1) : calls[j].fn = "calibrate" /\ calls[j].dev = a

\* C16: set_calibration has been applied to every arm before any
\* Goal_Position write is issued to any arm: within connect() the preset's
\* write follows the calibration of every arm, and teleop_step and
\* send_action write only on a controller all of whose arms are calibrated
C16_CalibratedBeforeMotion ==
  /\ \A n \in DOMAIN stack : stack[n].op = "connect" => CalibratedFirst(stack[n].log)
  /\ lastOp.op = "connect" => CalibratedFirst(lastOp.calls)
  /\ (lastOp.op \in Motion /\ \E k \in DOMAIN lastOp.calls : IsMotionWrite(lastOp.calls[k])) =>
       Arms \subseteq Calibrated
  /\ is_connected => Arms \subseteq Calibrated

\* a connect() whose preset wrote a Goal_Position
C16_Witness ==
  /\ lastOp.op = "connect"
  /\ lastOp.raised = "none"
  /\ \E k \in DOMAIN lastOp.calls : IsMotionWrite(lastOp.calls[k])
  /\ follower_arms # <<>>

\* ------------------------------------------------- critical-error claim
Polls(calls) == SelectSeq(calls, LAMBDA c : c.fn = "has_critical_error")
Recording == lastOp.op \in {"capture_observation", "teleop_step"} /\ Polls(lastOp.calls) # <<>>
ObservationKeys ==
  [k \in 1..Len(cameras) |-> ObsKey("camera", cameras[k], "image")] \o tactile_features

\* C21: a capture that reaches the poll of the sensors' critical-error
\* flags polls every sensor, leaves in self.logs an entry (flag and
\* message) for exactly the sensors whose flag is set, raises nothing,
\* returns the state vector and every declared observation key, and leaves
\* the controller connected
C21_CriticalErrorAdvisory ==
  Recording =>
    LET P == Polls(lastOp.calls)
    IN /\ [k \in DOMAIN P |-> P[k].dev] = Sensors
       /\ {e.sensor : e \in logs} = {k \in DOMAIN P : P[k].val}
       /\ logs \subseteq critical
       /\ lastOp.raised = "none"
       /\ Len(lastOp.ret.state) = NumMotors * Len(follower_arms)
       /\ KeysOf(lastOp.ret.obs) = ObservationKeys
       /\ is_connected

\* of two sensors polled by a capture, one has its flag set and one has not
C21_Witness ==
  /\ Recording
  /\ lastOp.raised = "none"
  /\ Len(tactile_sensors) = 2
  /\ \E j, k \in DOMAIN Polls(lastOp.calls) :
       Polls(lastOp.calls)[j].val /\ ~Polls(lastOp.calls)[k].val
  /\ logs # {}

\* ------------------------------------------------- missing-device claim
\* connect() failed on the guard of line 379: ValueError before any device call
MissingDevice == lastOp.raised = "ValueError" /\ lastOp.calls = <<>>

\* C22: connect() on a disconnected controller fails with the
\* missing-device error exactly when no arm, no camera and no tactile
\* sensor is configured; in that case no device is called and the
\* controller stays disconnected
C22_MissingDeviceExactly ==
  (lastOp.op = "connect" /\ ~lastOp.conn) =>
    /\ MissingDevice <=> Devices = {}
    /\ MissingDevice => ~is_connected

\* ---------------------------------------------------- calibration files
\* the load_or_run_calibration_ calls of every connect() running or finished
CalibrationCalls ==
  LET logOf(calls) == {calls[k] : k \in {j \in DOMAIN calls : calls[j].fn = "calibrate"}}
  IN UNION {logOf(stack[n].log) : n \in {m \in DOMAIN stack : stack[m].op = "connect"}}
       \cup (IF lastOp.op = "connect" THEN logOf(lastOp.calls) ELSE {})
Routines == {"run_arm_calibration", "run_arm_manual_calibration"}

\* C23: when a calibration file exists for an arm, activate_calibration
\* passes the file's content unchanged to set_calibration, runs no
\* calibration routine for that arm and does not write the file
C23_ExistingFileApplied ==
  \A c \in CalibrationCalls :
     c.val.file # NoCalibration =>
       /\ c.val.routine = "none"
       /\ ~c.val.wrote
       /\ calib_files[c.dev] = c.val.file
       /\ c.val.applied => c.val.calibration = c.val.file /\ calibrated[c.dev] = c.val.file

\* a connect() returned after applying a stored file to every arm
C23_Witness ==
  /\ lastOp.op = "connect" /\ lastOp.raised = "none"
  /\ Arms # {}
  /\ \A a \in Arms : \E c \in CalibrationCalls :
       c.dev = a /\ c.val.file = StoredCalibration /\ c.val.applied

\* C24: when no calibration file exists for an arm, activate_calibration
\* runs the routine of the robot type's family, saves the record it
\* returns and applies that record; when connect() returns every arm has a
\* file, and whatever was applied to an arm is what its file holds, so a
\* later connect applies the same record and runs no routine
C24_MissingFileCalibrated ==
  /\ \A c \in CalibrationCalls :
       /\ c.val.file = NoCalibration =>
            /\ robot_type \in {"koch", "koch_bimanual", "aloha"} =>
                 c.val.routine = "run_arm_calibration"
            /\ robot_type \in {"so100", "so101", "moss", "lekiwi"} =>
                 c.val.routine = "run_arm_manual_calibration"
            /\ c.val.applied =>
                 /\ c.val.calibration.by = c.val.routine
                 /\ c.val.wrote
                 /\ calib_files[c.dev] = c.val.calibration
                 /\ calibrated[c.dev] = c.val.calibration
       /\ (c.val.file.by \in Routines /\ c.val.applied) =>
            c.val.routine = "none" /\ c.val.calibration = c.val.file
  /\ (lastOp.op = "connect" /\ lastOp.raised = "none") =>
       \A a \in Arms : calib_files[a] # NoCalibration
  /\ \A a \in Calibrated : calibrated[a] = calib_files[a]

\* a connect() that found the files an earlier connect() of the session
\* had saved, the routine having returned its second possible result
C24_Witness ==
  /\ lastOp.op = "connect" /\ lastOp.raised = "none"
  /\ \E c \in CalibrationCalls : c.val.file.by \in Routines /\ c.val.file.id = 2

\* ------------------------------------------------- feature schema claims
\* the entries of a features mapping that belong to the n-th tactile sensor
SensorFeatures(map, n) ==
  SelectSeq(map, LAMBDA f : f.key.type \in SensorTypes /\ f.key.name = n)

\* C25: in the feature schema a digit sensor has exactly five keys: the
\* serial number, frame index, send timestamp and receive timestamp, and
\* observation.tactile.digit.<name>.tactile_image of shape (240,320,3) and
\* dtype uint8; it has no force and no moment key
C25_DigitSchema ==
  lastOp.op = "features" =>
    \A n \in 1..Len(tactile_sensors) :
       tactile_sensors[n] = "digit" =>
         LET own == SensorFeatures(lastOp.ret.features, n)
         IN /\ Len(own) = 5
            /\ {own[i].key : i \in DOMAIN own} =
                 {ObsKey("digit", n, f) :
                    f \in {"sensor_sn", "frame_index", "send_timestamp", "recv_timestamp",
                           "tactile_image"}}
            /\ \A i \in DOMAIN own :
                 own[i].key.field = "tactile_image" =>
                   own[i].shape = <<240, 320, 3>> /\ own[i].dtype = "uint8"

\* the schema of a controller whose only sensor is a digit sensor was read
C25_Witness ==
  /\ lastOp.op = "features"
  /\ tactile_sensors = <<"digit">>
  /\ Len(SensorFeatures(lastOp.ret.features, 1)) = 5

\* C26: reading features calls no device, succeeds whether or not the
\* controller is connected, and returns the mapping that the first read
\* of the session returned, before connect, while connected and after
\* disconnect
C26_FeaturesPure ==
  lastOp.op = "features" =>
    /\ lastOp.calls = <<>>
    /\ lastOp.raised = "none"
    /\ schema.read
    /\ lastOp.ret.features = schema.map

\* features read after a disconnect, the first read having been made while
\* the controller was connected
C26_Witness ==
  /\ lastOp.op = "features"
  /\ ~lastOp.conn
  /\ schema.conn
  /\ Devices # {}

\* C28: the action and observation.state descriptors have the length and
\* the motor names, follower arms in registry order and then motors, of
\* the observation.state a capture returns and of the action
\* teleop_step(record_data=True) returns, for every configuration
C28_MotorFeaturesMatch ==
  LET names == get_motor_names(follower_arms)
      Describes(f, vec) == f.shape = <<Len(vec)>> /\ f.names = names /\ Len(vec) = Len(names)
  IN /\ (lastOp.op = "capture_observation" /\ lastOp.raised = "none") =>
          Describes(motor_features[2], lastOp.ret.state)
     /\ (lastOp.op = "teleop_step" /\ lastOp.arg = <<TRUE>> /\ lastOp.raised = "none") =>
          /\ Describes(motor_features[1], lastOp.ret.action)
          /\ Describes(motor_features[2], lastOp.ret.state)

\* ----------------------------------------------------- per-axis clamp
\* C27: on each axis i the clamp returns
\* present[i] + min(max(goal[i] - present[i], -b_i), +b_i), b_i being the
\* scalar bound or the i-th entry of a per-axis bound: a delta beyond the
\* bound saturates at the bound with the sign of the delta, whatever the
\* other axes hold
C27_ClampPerAxis ==
  clamp.stage = "clamped" =>
    \A i \in DOMAIN clamp.result :
       LET b == IF clamp.mrt.kind = "scalar" THEN clamp.mrt.val[1] ELSE clamp.mrt.val[i]
           d == clamp.goal[i] - clamp.present[i]
       IN /\ clamp.result[i] = clamp.present[i] + Min(Max(d, 0 - b), b)
          /\ d > b => clamp.result[i] = clamp.present[i] + b
          /\ d < 0 - b => clamp.result[i] = clamp.present[i] - b

\* a per-axis bound with two different entries: one axis saturated upwards
\* at its own bound, the other left as requested
C27_Witness ==
  /\ clamp.stage = "clamped" /\ clamp.mrt.kind = "list"
  /\ clamp.mrt.val[1] # clamp.mrt.val[2]
  /\ clamp.goal[1] - clamp.present[1] > clamp.mrt.val[1]
  /\ clamp.result[2] = clamp.goal[2]
  /\ clamp.goal[2] # clamp.present[2]

\* ----------------------------------------------------- connect order
\* the device calls of a connect(): 1 device connect, 2 set_calibration,
\* 3 preset register access
Rank(c) == IF c.fn = "connect" THEN 1 ELSE IF c.fn = "calibrate" THEN 2 ELSE 3
PresetCalls(calls) == SelectSeq(calls, LAMBDA c : Rank(c) = 3)
\* the registers each preset family touches
FamilyRegisters ==
  IF robot_type \in {"koch", "koch_bimanual"}
  THEN {"Torque_Enable", "Operating_Mode", "Position_P_Gain", "Position_I_Gain",
        "Position_D_Gain", "Goal_Position"}
  ELSE IF robot_type = "aloha"
  THEN {"ID", "Secondary_ID", "Velocity_Limit", "Operating_Mode"}
  ELSE IF robot_type = "so100"
  THEN {"Mode", "P_Coefficient", "I_Coefficient", "D_Coefficient", "Lock",
        "Maximum_Acceleration", "Acceleration"}
  ELSE {}
Ordered(calls) ==
  /\ \A j, k \in DOMAIN calls : j < k => Rank(calls[j]) <= Rank(calls[k])
  /\ \A k \in DOMAIN calls : Rank(calls[k]) = 3 => calls[k].reg \in FamilyRegisters
  /\ \A j, k \in DOMAIN calls :
       (j < k /\ Rank(calls[j]) = 3 /\ calls[j].fn = "write") =>
         ~(/\ calls[k].fn = "write" /\ calls[k].dev = calls[j].dev
           /\ calls[k].reg = calls[j].reg /\ calls[k].motors = calls[j].motors)

\* C29: within connect() every device connect() precedes every
\* set_calibration, every set_calibration precedes every preset register
\* write, is_connected is still False while connect() makes its calls and a
\* connect() that returned has connected every device and calibrated every
\* arm; the preset's registers are those of the robot type's family, each
\* written at most once per arm
C29_ConnectOrder ==
  /\ \A n \in DOMAIN stack :
       stack[n].op = "connect" => Ordered(stack[n].log) /\ ~is_connected
  /\ lastOp.op = "connect" =>
       /\ Ordered(lastOp.calls)
       /\ (lastOp.raised = "none") =>
            /\ {lastOp.calls[k].dev : k \in {j \in DOMAIN lastOp.calls : Rank(lastOp.calls[j]) = 1}}
                 = Devices
            /\ {lastOp.calls[k].dev : k \in {j \in DOMAIN lastOp.calls : Rank(lastOp.calls[j]) = 2}}
                 = Arms
            /\ (robot_type \in {"koch", "aloha", "so100"} /\ follower_arms # <<>>) =>
                 PresetCalls(lastOp.calls) # <<>>

\* a connect() that returned after connecting a camera, calibrating a
\* leader and a follower and writing the registers of the koch preset
C29_Witness ==
  /\ lastOp.op = "connect" /\ lastOp.raised = "none"
  /\ robot_type = "koch"
  /\ follower_arms # <<>> /\ leader_arms # <<>> /\ cameras # <<>>
  /\ gripper_open_degree # <<>>
  /\ PresetCalls(lastOp.calls) # <<>>

\* ------------------------------------------------ teleoperation pairing
\* C30: teleop_step on a connected controller writes a Goal_Position to
\* every follower arm, the goal of the follower named n being, before the
\* clamp, the present position read in this call from the leader named n,
\* for every leader/follower configuration connect() accepts; it never
\* stops with a KeyError after some followers were commanded
C30_TeleopServesEveryFollower ==
  (lastOp.op = "teleop_step" /\ lastOp.conn) =>
    LET W == GoalWritesOf(lastOp.calls)
        L == SelectSeq(lastOp.calls, LAMBDA c : c.dev.cls = "leader")
        P(k) == SelectSeq(lastOp.calls,
                          LAMBDA c : c.dev = Followers[k] /\ c.fn = "read")
    IN /\ lastOp.raised # "KeyError"
       /\ \A k \in 1..Len(follower_arms) :
            \E j \in DOMAIN W, i \in DOMAIN L :
               /\ W[j].dev = Followers[k]
               /\ L[i].dev.name = follower_arms[k]
               /\ W[j].val = IF max_relative_target.kind = "none" THEN L[i].val
                             ELSE Clamped(L[i].val, P(k)[1].val, max_relative_target)

\* ------------------------------------------------------- capture stages
\* the positions, in a sequence of device calls, of the calls that satisfy T
Where(calls, T(_)) == {k \in DOMAIN calls : T(calls[k])}
IsTactileRead(c) == c.dev.cls = "tactile" /\ c.fn = "read"
IsArmOrCameraRead(c) ==
  \/ c.dev.cls = "follower" /\ c.fn = "read" /\ c.reg = "Present_Position"
  \/ c.dev.cls = "camera" /\ c.fn = "async_read"
IsPoll(c) == c.fn = "has_critical_error"

\* C31: within one capture the tactile sensor reads are started first, the
\* follower Present_Position reads and the camera async_reads come second,
\* and the critical-error poll that follows the assembly comes last
C31_StageOrder ==
  lastOp.op = "capture_observation" =>
    /\ \A t \in Where(lastOp.calls, IsTactileRead), a \in Where(lastOp.calls, IsArmOrCameraRead) :
         t < a
    /\ \A a \in Where(lastOp.calls, IsArmOrCameraRead), q \in Where(lastOp.calls, IsPoll) :
         a < q

\* ------------------------------------------------------ stalled reads
\* C32: the routine returns only when every sensor's read() has returned
\* or raised; once a read has stalled (a stalled read stays stalled) the
\* routine has not returned and never does, even when every other read
\* has finished; and when no read stalls the routine does return
C32_ReturnsIffReadsFinish ==
  /\ [](/\ tactile.stage = "done" => DOMAIN tactile.read = 1..Len(tactile_sensors)
        /\ tactile.hung # {} => tactile.stage # "done")
  /\ [][tactile.hung \subseteq tactile'.hung]_vars
  /\ (tactile.stage = "reading") ~> (tactile.stage = "done" \/ tactile.hung # {})

\* of two sensors one has finished its read and the other never returns
C32_Witness ==
  /\ tactile.stage = "reading"
  /\ Len(tactile_sensors) = 2
  /\ tactile.hung # {} /\ tactile.pending = tactile.hung
  /\ DOMAIN tactile.read # {}

\* C33: the observation of a call is built from the reads of that call only.
\* When the routine returns, its result is the one the reads of this call give;
\* every entry of a sensor whose read raised or returned nothing is a
\* placeholder, whatever the sensor returned in the call before; the entries of
\* a sensor that failed in the call before and returns data now are the ones
\* its current payload gives.
C33_CurrentReadsOnly ==
  tactile.stage = "done" =>
    /\ \E o \in Orders(Len(tactile_sensors)) :
          LET r == get_tactile_observation(o, tactile.read)
          IN tactile.err = r.err /\ tactile.obs = r.obs
    /\ \A n \in 1..Len(tactile_sensors) :
          /\ tactile.read[n].kind # "data" =>
                \A i \in DOMAIN OwnEntries(n) : OwnEntries(n)[i].val.src = 0
          /\ (n \in DOMAIN tactile.prev /\ tactile.prev[n].kind = "raise"
                /\ tactile.read[n].kind = "data") =>
                LET own == Assign(<<>>, n, sensor_items(n, future_result(tactile.read[n])))
                IN \A i \in DOMAIN OwnEntries(n) :
                     OwnEntries(n)[i].val = own[<<n, OwnEntries(n)[i].key.field>>]

C33_Witness ==
  /\ tactile.stage = "done" /\ tactile.call = 2 /\ tactile.err = "none"
  /\ \E n, m \in 1..Len(tactile_sensors) :
        /\ tactile.prev[n].kind = "data" /\ Truthy(tactile.prev[n])
        /\ tactile.read[n].kind = "raise"
        /\ tactile.prev[m].kind = "raise"
        /\ tactile.read[m].kind = "data"
        /\ \E i \in DOMAIN OwnEntries(m) : OwnEntries(m)[i].val.src = m

\* C34: when connect() raises after it has connected devices, the controller
\* stays disconnected and every device it had connected has been disconnected
\* again by the time the exception reaches the caller.
ConnectedBy(calls) ==
  {calls[i].dev : i \in {j \in 1..(Len(calls) - 1) : calls[j].fn = "connect"}}

C34_ConnectReleasesOnFailure ==
  (lastOp.op = "connect" /\ lastOp.raised # "none" /\ lastOp.calls # <<>>) =>
     /\ ~is_connected
     /\ \A d \in ConnectedBy(lastOp.calls) : discCalls[d] >= 1

\* C35: when a signal interrupts connect(), the handler has disconnected every
\* device connect() had connected by the time it restores the original
\* disposition and re-delivers the signal.
InterruptedConnect(k) ==
  /\ k > 1 /\ stack[k].op = "handler" /\ stack[k].pc \in {"restore", "raise"}
  /\ stack[k - 1].op = "connect"

C35_HandlerReleasesPartialConnect ==
  \A k \in DOMAIN stack :
     InterruptedConnect(k) =>
       \A i \in DOMAIN stack[k - 1].log :
          stack[k - 1].log[i].fn = "connect" => discCalls[stack[k - 1].log[i].dev] >= 1

\* C36: the critical-error flag of the session logs is monotone. A sensor
\* that has an entry in self.logs keeps one through every step: a capture
\* that polls the sensor after its flag cleared, disconnect and a new connect.
LoggedSensors(l) == {e.sensor : e \in l}

C36_LogFlagMonotone == [][LoggedSensors(logs) \subseteq LoggedSensors(logs')]_vars

\* a capture polled a sensor whose flag had cleared, and the entry of the
\* earlier capture is still there
C36_Witness ==
  /\ lastOp.op = "capture_observation" /\ lastOp.raised = "none"
  /\ \E i \in DOMAIN lastOp.calls :
        /\ IsPoll(lastOp.calls[i]) /\ lastOp.calls[i].val = FALSE
        /\ lastOp.calls[i].dev.name \in LoggedSensors(logs)
        /\ discCalls[lastOp.calls[i].dev] = 0

\* C37: every configuration connect() accepts is usable. On a connected
\* controller capture_observation, send_action and teleop_step(record_data=True)
\* do not fail because of the configuration: no exception is raised by the
\* controller's own code (torch.cat of no tensors, a follower name looked up
\* among the leaders) while every device answers.
Recorded ==
  \/ lastOp.op \in {"capture_observation", "send_action"}
  \/ lastOp.op = "teleop_step" /\ lastOp.arg = <<TRUE>>

ConfigurationError ==
  \/ lastOp.raised = "RuntimeError"
  \/ /\ lastOp.raised = "KeyError"
     /\ \A i \in DOMAIN lastOp.calls : ~IsTactileRead(lastOp.calls[i])

C37_AcceptedConfigurationUsable ==
  (lastOp.conn /\ Recorded) => ~ConfigurationError

====
